---- MODULE Spec2Model ----
(***************************************************************************)
(* State-machine model of the pySBC2 controller runtime: the synthetic     *)
(* input queue (input_matrix.py), the vessel lifecycle models              *)
(* (vessel_models.py), the LED codec and LED mode machine (sbc_driver.py)  *)
(* with the axis and gear decode, and the macro engine's zone handlers,    *)
(* expression evaluator, step interpreter and control dispatch             *)
(* (macro_engine.py).  Each component has its own specification over the   *)
(* shared variables; a component a specification does not drive stays in   *)
(* its constructed state.                                                  *)
(***************************************************************************)
EXTENDS Integers, Sequences, FiniteSets, TLC

VARIABLES
    \* ---- InputMatrix (input_matrix.py)
    events,          \* self._events, oldest first
    maxlen,          \* maxlen of the deque: max(1, int(max_events))
    event_sink,      \* "none" | "ok" | "raises": the optional publish sink
    published,       \* outcome of the publish attempt of the last _push
    now,             \* the wall clock read by time.time(), in ms
    ret,             \* return value of the most recent drain() call
    \* ---- history of the queue, kept for the properties only
    last_op,         \* name of the most recent InputMatrix call
    pushed,          \* records handed to _push since the last drain
    pushed_before,   \* value of pushed when the current run of drains started
    drains_in_row,   \* number of drain() calls since the last enqueue
    \* ---- vessel model (vessel_models.py)
    model_type,      \* "mech" | "ship" | "app" | "none" (no model built)
    model_config,    \* the vessel_model section of the effective config
    control_map,     \* self.control_map: symbolic name -> control name
    control_state,   \* self._control_state, absent keys read as FALSE
    vstate,          \* self.state
    \* ---- history of the vessel model, kept for the properties only
    scenario,        \* progress of the calls so far along the startup script
    \* ---- LED side of the driver (sbc_driver.py)
    raw_led_data,    \* the 22-byte LED report, byte position -> 0..255
    led_state,       \* led_id -> intensity, ids 4..41
    \* ---- history of the LED codec, kept for the properties only
    last_set,        \* arguments of the most recent set_led call and whether
                     \* the call left raw_led_data and led_state as they were
    \* ---- control side of the driver (sbc_driver.py)
    raw_control_data,   \* the current report: [none, down]
    prev_control_data,  \* the report before it
    led_modes,       \* self.led_modes: LED name -> mode string
    flash_on,        \* self._flash_on
    logical_states,  \* self.logical_state: button name -> bool
    \* ---- history of the LED mode machine, kept for the properties only
    led_writes,      \* set_led calls of the last handle_button_leds call:
                     \* <<led_id, intensity, button being handled>>
    last_call,       \* "init" | "frame" | "set_led"
    toggle_hist,     \* per pressed button: the values its LED had before each
                     \* of its last (at most two) consecutive toggle press edges
    \* ---- macro engine (macro_engine.py)
    layer,           \* self.layer
    macro_vars,      \* self.vars
    last_values,     \* sbc.last_values
    eval_input,      \* the expression handed to _eval_expr: [syntax_ok, body]
    eval_out,        \* what the call returned: [val, calls, raised]
    eval_done,       \* whether the call has been made
    macros,          \* self.macros: action name -> macro
    analog_zones,    \* self.analog_zones: list of [axis, zones], dict order
    gear_zones,      \* self.gear_zones
    active_keys,     \* self.active_keys
    axis_active,     \* self.axis_active: axis -> [action, behavior]
    gear_active,     \* self.gear_active: <<>> (None) or <<[action, behavior]>>
    control_macros,  \* self.control_macros: list of [control, mapping], dict order
    \* ---- history of the zone dispatch, kept for the properties only
    engine_out,      \* key emissions and events of the last handler call
    analog_in,       \* <<state>> of the last handle_analogs call, else <<>>
    gear_in,         \* <<state>> of the last handle_gears call, else <<>>
    engine_raised,   \* whether the last handler call ended in an exception
    engine_call,     \* "init" | "analogs" | "gears" | "frame" | "run_macro"
                     \* | "replay" | "tick"
    led_effects,     \* self.led_effects: list of [name, effect], dict order
    monotonic,       \* the clock read by time.monotonic(), in ms
    \* ---- history of the LED effects, kept for the properties only
    tick_writes,     \* set_led calls of the last tick: <<led_id, intensity>>
    tick_removed,    \* LED names the last tick removed from led_effects
    \* ---- history of the runtime loop, kept for the properties only
    cycle_hist,      \* of the last cycle: the records the vessel model (fed)
                     \* and the physical dispatch (queued) enqueued, and the
                     \* list drain() returned (drained)
    axis_buf,        \* the two report bytes of an axis: <<buf[first], buf[second]>>
    axis_out,        \* <<>>, or <<_axis_value, _signed_axis_value>> of axis_buf
    gear_raw,        \* byte 25 of the report
    gear_parsed       \* <<>>, or <<the "gear" entry parse_raw_state returns>>

qvars == <<events, maxlen, event_sink, published, now, ret>>
qhist == <<last_op, pushed, pushed_before, drains_in_row>>
vvars == <<model_type, model_config, control_map, control_state, vstate>>
vhist == <<scenario>>
cvars == <<raw_led_data, led_state>>
chist == <<last_set>>
lvars == <<raw_control_data, prev_control_data, led_modes, flash_on, logical_states>>
lhist == <<led_writes, last_call, toggle_hist>>
avars == <<axis_buf, axis_out>>
gvars == <<gear_raw, gear_parsed>>
driver_vars == <<cvars, chist, lvars, lhist, avars, gvars>>
evars == <<layer, macro_vars, last_values, eval_input, eval_out, eval_done>>
zvars == <<macros, analog_zones, gear_zones, active_keys, axis_active,
           gear_active, control_macros>>
zhist == <<engine_out, analog_in, gear_in, engine_raised, engine_call>>
fvars == <<led_effects, monotonic>>
fhist == <<tick_writes, tick_removed, cycle_hist>>
engine_vars == <<evars, zvars, zhist, fvars, fhist>>
not_driver == <<qvars, qhist, vvars, vhist, engine_vars>>
not_engine == <<qvars, qhist, vvars, vhist, driver_vars>>

vars == <<not_driver, driver_vars>>


-----------------------------------------------------------------------------
(* Generic helpers *)

Max(a, b) == IF a >= b THEN a ELSE b
Min(a, b) == IF a <= b THEN a ELSE b

\* the last n elements of s (all of s when it is shorter)
LastN(s, n) == SubSeq(s, Max(1, Len(s) - n + 1), Len(s))

-----------------------------------------------------------------------------
(* InputMatrix *)

\* bounds of the queue model
MaxEvents  == 2      \* largest max_events a configuration asks for
MaxClock   == 1      \* the clock advances up to this many ms
ExtraPush  == 1      \* enqueues followed beyond the capacity before a drain

MaxEventsArgs == -1 .. MaxEvents

\* InputMatrix.__init__: maxlen=max(1, int(max_events))
Capacity(max_events) == Max(1, max_events)

\* a bounded append that refuses the new item instead of dropping the oldest
DequeAppendDropNewest(q, n, x) ==
    IF Len(q) >= n THEN q ELSE Append(q, x)

\* deque(maxlen=n).append: a full deque discards its oldest item
DequeAppend(q, n, x) ==
    IF Len(q) >= n THEN Append(SubSeq(q, 2, Len(q)), x) ELSE Append(q, x)

\* a publish with no try/except around it: the failure leaves _push
PublishOutcomeUncaught(sink) ==
    CASE sink = "none"   -> "skipped"
      [] sink = "ok"     -> "sent"
      [] sink = "raises" -> "raised"

\* event_sink.publish inside try/except: the failure is swallowed
PublishOutcome(sink) ==
    CASE sink = "none"   -> "skipped"
      [] sink = "ok"     -> "sent"
      [] sink = "raises" -> "swallowed"

\* `payload or {}`
PayloadOr(payload) == IF payload = "None" THEN "{}" ELSE payload

ButtonRecord(control, pressed, source, payload) ==
    [type |-> "button", name |-> control, pressed |-> pressed,
     source |-> source, payload |-> PayloadOr(payload)]

MacroRecord(macro, source, payload) ==
    [type |-> "macro", name |-> macro, pressed |-> FALSE,
     source |-> source, payload |-> PayloadOr(payload)]

EventRecord(name, source, payload) ==
    [type |-> "event", name |-> name, pressed |-> FALSE,
     source |-> source, payload |-> PayloadOr(payload)]

\* InputMatrix._push on a queue value: stamp, append
Stamp(event, t) ==
    [type |-> event.type, name |-> event.name, pressed |-> event.pressed,
     source |-> event.source, payload |-> event.payload, timestamp_ms |-> t]

PushTo(q, n, event, t) == DequeAppend(q, n, Stamp(event, t))

\* InputMatrix._push as a step of the queue
Push(event) ==
    /\ events' = PushTo(events, maxlen, event, now)
    /\ published' = PublishOutcome(event_sink)
    /\ ret' = <<>>
    /\ pushed' = Append(pushed, Stamp(event, now))
    /\ pushed_before' = <<>>
    /\ drains_in_row' = 0
    /\ UNCHANGED <<maxlen, event_sink, now>>

\* a call that returns before _push
NoPush ==
    /\ ret' = <<>>
    /\ UNCHANGED <<events, maxlen, event_sink, published, now>>
    /\ UNCHANGED <<pushed, pushed_before, drains_in_row>>

PushAllowed == Len(pushed) < maxlen + ExtraPush

QueueButton(control, pressed, source, payload) ==
    /\ PushAllowed
    /\ last_op' = "queue_button"
    /\ IF control = "" THEN NoPush
       ELSE Push(ButtonRecord(control, pressed, source, payload))

QueueMacro(macro, source, payload) ==
    /\ PushAllowed
    /\ last_op' = "queue_macro"
    /\ IF macro = "" THEN NoPush
       ELSE Push(MacroRecord(macro, source, payload))

QueueEvent(name, source, payload) ==
    /\ PushAllowed
    /\ last_op' = "queue_event"
    /\ IF name = "" THEN NoPush
       ELSE Push(EventRecord(name, source, payload))

\* list(self._events)
DrainResult(q) == q

\* a drain that forgets to clear
DrainRestKept(q) == q

\* self._events.clear()
DrainRest(q) == <<>>

Drain ==
    /\ drains_in_row < 2
    /\ ret' = DrainResult(events)
    /\ events' = DrainRest(events)
    /\ last_op' = "drain"
    /\ pushed_before' = IF drains_in_row = 0 THEN pushed ELSE pushed_before
    /\ pushed' = <<>>
    /\ drains_in_row' = drains_in_row + 1
    /\ UNCHANGED <<maxlen, event_sink, published, now>>

\* time passes between calls
ClockTick ==
    /\ now < MaxClock
    /\ now' = now + 1
    /\ UNCHANGED <<events, maxlen, event_sink, published, ret>>
    /\ UNCHANGED qhist
    /\ UNCHANGED <<vvars, vhist, driver_vars, engine_vars>>

QueueInit ==
    /\ events = <<>>
    /\ maxlen \in {Capacity(m) : m \in MaxEventsArgs}
    /\ event_sink \in {"none", "ok", "raises"}
    /\ published = "skipped"
    /\ now = 0
    /\ ret = <<>>
    /\ last_op = "init"
    /\ pushed = <<>>
    /\ pushed_before = <<>>
    /\ drains_in_row = 0

\* InputMatrix(max_events=256) without a sink, the runtime's default,
\* here with the capacity of the model
QueueInitDefault ==
    /\ events = <<>>
    /\ maxlen = Capacity(MaxEvents)
    /\ event_sink = "none"
    /\ published = "skipped"
    /\ now = 0
    /\ ret = <<>>
    /\ last_op = "init"
    /\ pushed = <<>>
    /\ pushed_before = <<>>
    /\ drains_in_row = 0

QueueControls == {"", "Start"}
QueueMacros   == {"", "powerup"}
QueueEvents   == {"", "marker"}

QueueButtonStep ==
    /\ \E c \in QueueControls : QueueButton(c, TRUE, "automation", "None")
    /\ UNCHANGED <<vvars, vhist, driver_vars, engine_vars>>

QueueMacroStep ==
    /\ \E m \in QueueMacros : QueueMacro(m, "automation", "None")
    /\ UNCHANGED <<vvars, vhist, driver_vars, engine_vars>>

QueueEventStep ==
    /\ \E e \in QueueEvents : QueueEvent(e, "automation", "None")
    /\ UNCHANGED <<vvars, vhist, driver_vars, engine_vars>>

DrainStep == Drain /\ UNCHANGED <<vvars, vhist, driver_vars, engine_vars>>

QueueNext ==
    \/ QueueButtonStep
    \/ QueueMacroStep
    \/ QueueEventStep
    \/ DrainStep
    \/ ClockTick

-----------------------------------------------------------------------------
(* Vessel models *)

\* the control names the runtime loop feeds to the vessel models here
VesselControls ==
    {"CockpitHatch", "Ignition", "Start", "ToggleFilterControl",
     "ToggleOxygenSupply", "ToggleFuelFlowRate", "ToggleBufferMaterial",
     "ToggleVTLocation", "MultiMonOpenClose", "Eject"}

\* config_loader.load_config: the default vessel_model.control_map
DefaultControlMap ==
    [s \in {"hatch", "crew_ready", "ignition", "start", "filter",
            "life_support", "coolant", "buffer_material", "shielding",
            "activate", "deactivate"} |->
        CASE s = "hatch"           -> "CockpitHatch"
          [] s = "crew_ready"      -> "MultiMonOpenClose"
          [] s = "ignition"        -> "Ignition"
          [] s = "start"           -> "Start"
          [] s = "filter"          -> "ToggleFilterControl"
          [] s = "life_support"    -> "ToggleOxygenSupply"
          [] s = "coolant"         -> "ToggleFuelFlowRate"
          [] s = "buffer_material" -> "ToggleBufferMaterial"
          [] s = "shielding"       -> "ToggleVTLocation"
          [] s = "activate"        -> "Start"
          [] s = "deactivate"      -> "Eject"]

\* a control_map that names only the ignition and start controls, as a
\* profile overriding the vessel_model section gives
PartialControlMap ==
    [s \in {"ignition", "start"} |->
        IF s = "ignition" THEN "Ignition" ELSE "Start"]

\* the vessel_model sections a configuration file provides here: the
\* loader's defaults, and a profile with automation on and a partial map
VesselConfigs ==
    { [control_map |-> DefaultControlMap, auto_queue_start |-> FALSE,
       auto_queue_powerup_macro |-> FALSE],
      [control_map |-> PartialControlMap, auto_queue_start |-> TRUE,
       auto_queue_powerup_macro |-> TRUE] }

\* MechVesselModel.__init__: defaults
MechDefaults ==
    [s \in {"hatch", "ignition", "start", "filter", "life_support",
            "coolant", "buffer_material", "shielding"} |->
        DefaultControlMap[s]]

\* ShipVesselModel.__init__: defaults
ShipDefaults ==
    [s \in {"crew_ready", "ignition", "start", "life_support", "coolant",
            "shielding"} |->
        DefaultControlMap[s]]

\* AppVesselModel.__init__: defaults
AppDefaults == [s \in {"activate", "deactivate"} |-> DefaultControlMap[s]]

\* for key, value in defaults.items(): self.control_map.setdefault(key, value)
SetDefaults(cmap, defaults) ==
    [s \in DOMAIN cmap \cup DOMAIN defaults |->
        IF s \in DOMAIN cmap THEN cmap[s] ELSE defaults[s]]

TypeDefaults(t) ==
    CASE t = "mech" -> MechDefaults
      [] t = "ship" -> ShipDefaults
      [] t = "app"  -> AppDefaults

InitialStartup(t) ==
    CASE t = "mech" -> "await_hatch"
      [] t = "ship" -> "await_crew_ready"
      [] t = "app"  -> "idle"

MechToggles == <<"filter", "life_support", "coolant", "buffer_material", "shielding">>
ShipToggles == <<"life_support", "coolant", "shielding">>

\* CoreVesselModel._map_control (no caller passes a fallback)
MapControlIn(cmap, symbolic_name) ==
    IF symbolic_name \in DOMAIN cmap THEN cmap[symbolic_name] ELSE symbolic_name

MapControl(symbolic_name) == MapControlIn(control_map, symbolic_name)

\* self._control_state.get(control_name, False)
Tracked(cs, control_name) ==
    IF control_name \in DOMAIN cs THEN cs[control_name] ELSE FALSE

\* CoreVesselModel._is_on on a vessel value
IsOnIn(v, symbolic_name) == Tracked(v.cs, MapControl(symbolic_name))

IsOn(symbolic_name) == Tracked(control_state, MapControl(symbolic_name))

VesselSource == "vessel:" \o model_type

\* CoreVesselModel._emit: publish (failures swallowed), then queue_event
Emit(v, event_type, payload) ==
    [v EXCEPT !.q = PushTo(@, maxlen, EventRecord(event_type, VesselSource, payload), now),
              !.pub = PublishOutcome(event_sink),
              !.log = Append(@, EventRecord(event_type, VesselSource, payload))]

\* a _queue_button that queues a release whatever it is asked for
VQueueButtonRelease(v, symbolic_name, pressed, reason) ==
    IF MapControl(symbolic_name) = "" THEN v
    ELSE [v EXCEPT !.q = PushTo(@, maxlen,
                        ButtonRecord(MapControl(symbolic_name), FALSE, VesselSource, reason), now),
                   !.pub = PublishOutcome(event_sink),
                   !.log = Append(@, ButtonRecord(MapControl(symbolic_name), FALSE,
                                                  VesselSource, reason))]

\* CoreVesselModel._queue_button
VQueueButton(v, symbolic_name, pressed, reason) ==
    IF MapControl(symbolic_name) = "" THEN v
    ELSE [v EXCEPT !.q = PushTo(@, maxlen,
                        ButtonRecord(MapControl(symbolic_name), pressed, VesselSource, reason), now),
                   !.pub = PublishOutcome(event_sink),
                   !.log = Append(@, ButtonRecord(MapControl(symbolic_name), pressed,
                                                  VesselSource, reason))]

\* CoreVesselModel._queue_macro
VQueueMacro(v, macro_name, reason) ==
    IF macro_name = "" THEN v
    ELSE [v EXCEPT !.q = PushTo(@, maxlen, MacroRecord(macro_name, VesselSource, reason), now),
                   !.pub = PublishOutcome(event_sink),
                   !.log = Append(@, MacroRecord(macro_name, VesselSource, reason))]

\* effective_config.get("powerup_macro", "powerup")
PowerupMacro == "powerup"

\* CoreVesselModel.on_control_change
BaseOnControlChange(v, control_name, pressed) ==
    IF control_name = "" THEN v
    ELSE IF Tracked(v.cs, control_name) = pressed THEN v
    ELSE Emit([v EXCEPT !.cs[control_name] = pressed], "vessel_control", "control")

\* the gate block shared by mech (hatch) and ship (crew_ready)
GateBlock(v, gate, control_name, pressed, reason) ==
    IF control_name = MapControl(gate) /\ pressed /\ v.st.power_state = "offline"
    THEN Emit([v EXCEPT !.st.power_state = "capacitor",
                        !.st.startup_state = "await_subsystems"],
              "vessel_startup_begin", reason)
    ELSE v

\* all(self._is_on(name) for name in [...])
AllOnIn(v, toggles) == \A i \in 1 .. Len(toggles) : IsOnIn(v, toggles[i])

\* a readiness block that is satisfied by any one toggle
ReadyBlockAny(v, toggles, control_name) ==
    IF control_name \in {MapControl(toggles[i]) : i \in 1 .. Len(toggles)}
    THEN IF \E i \in 1 .. Len(toggles) : IsOnIn(v, toggles[i])
         THEN Emit([v EXCEPT !.st.reactor_ready = TRUE,
                             !.st.startup_state = "reactor_ready"],
                   "vessel_reactor_ready", "mode")
         ELSE [v EXCEPT !.st.reactor_ready = FALSE]
    ELSE v

\* the reactor-readiness block
ReadyBlock(v, toggles, control_name) ==
    IF control_name \in {MapControl(toggles[i]) : i \in 1 .. Len(toggles)}
    THEN IF AllOnIn(v, toggles)
         THEN Emit([v EXCEPT !.st.reactor_ready = TRUE,
                             !.st.startup_state = "reactor_ready"],
                   "vessel_reactor_ready", "mode")
         ELSE [v EXCEPT !.st.reactor_ready = FALSE]
    ELSE v

\* an ignition block that does not look at reactor_ready
IgnitionBlockUngated(v, control_name, pressed, reason) ==
    IF control_name = MapControl("ignition") /\ pressed
    THEN LET a == Emit([v EXCEPT !.st.startup_state = "ignition_armed"],
                       "vessel_ignition_armed", "mode")
         IN  IF model_config.auto_queue_start
             THEN VQueueButton(VQueueButton(a, "start", TRUE, reason), "start", FALSE, reason)
             ELSE a
    ELSE v

\* the ignition block
IgnitionBlock(v, control_name, pressed, reason) ==
    IF control_name = MapControl("ignition") /\ pressed /\ v.st.reactor_ready
    THEN LET a == Emit([v EXCEPT !.st.startup_state = "ignition_armed"],
                       "vessel_ignition_armed", "mode")
         IN  IF model_config.auto_queue_start
             THEN VQueueButton(VQueueButton(a, "start", TRUE, reason), "start", FALSE, reason)
             ELSE a
    ELSE v

\* the start block; only the mech model queues the powerup macro
StartBlock(v, control_name, pressed, queue_powerup) ==
    IF control_name = MapControl("start") /\ pressed /\ v.st.reactor_ready
    THEN LET a == Emit([v EXCEPT !.st.power_state = "main_reactor",
                                 !.st.startup_state = "online",
                                 !.st.online = TRUE],
                       "vessel_online", "mode")
         IN  IF queue_powerup /\ model_config.auto_queue_powerup_macro
             THEN VQueueMacro(a, PowerupMacro, "vessel_online")
             ELSE a
    ELSE v

\* MechVesselModel.on_control_change
MechOnControlChange(v, control_name, pressed) ==
    LET v0 == BaseOnControlChange(v, control_name, pressed)
        v1 == GateBlock(v0, "hatch", control_name, pressed, "hatch_closed")
        v2 == ReadyBlock(v1, MechToggles, control_name)
        v3 == IgnitionBlock(v2, control_name, pressed, "ignition_armed")
    IN  StartBlock(v3, control_name, pressed, TRUE)

\* ShipVesselModel.on_control_change
ShipOnControlChange(v, control_name, pressed) ==
    LET v0 == BaseOnControlChange(v, control_name, pressed)
        v1 == GateBlock(v0, "crew_ready", control_name, pressed, "crew_ready")
        v2 == ReadyBlock(v1, ShipToggles, control_name)
        v3 == IgnitionBlock(v2, control_name, pressed, "ship_ignition_armed")
    IN  StartBlock(v3, control_name, pressed, FALSE)

\* AppVesselModel.on_control_change
AppOnControlChange(v, control_name, pressed) ==
    LET v0 == BaseOnControlChange(v, control_name, pressed)
        v1 == IF control_name = MapControl("activate") /\ pressed
              THEN Emit([v0 EXCEPT !.st.power_state = "active",
                                   !.st.startup_state = "online",
                                   !.st.online = TRUE],
                        "vessel_online", "mode")
              ELSE v0
    IN  IF control_name = MapControl("deactivate") /\ pressed
        THEN Emit([v1 EXCEPT !.st.power_state = "offline",
                             !.st.startup_state = "idle",
                             !.st.online = FALSE],
                  "vessel_offline", "mode")
        ELSE v1

\* log: the records a call hands to the queue, in order
VesselValue ==
    [cs |-> control_state, st |-> vstate, q |-> events, pub |-> published,
     log |-> <<>>]

\* the prerequisite toggles of the mech model, by control name
MechToggleControls ==
    {"ToggleFilterControl", "ToggleOxygenSupply", "ToggleFuelFlowRate",
     "ToggleBufferMaterial", "ToggleVTLocation"}

\* progress of the call history along the script
\* hatch press, five toggles on, ignition press, start press
ScenarioNext(control_name, pressed) ==
    CASE scenario = "initial" /\ control_name = "CockpitHatch" /\ pressed
            -> "hatch_pressed"
      [] scenario \in {"hatch_pressed", "toggling"} /\ pressed
         /\ control_name \in MechToggleControls
         /\ ~Tracked(control_state, control_name)
            -> "toggling"
      [] scenario = "toggling" /\ control_name = "Ignition" /\ pressed
         /\ \A c \in MechToggleControls : Tracked(control_state, c)
            -> "ignition_pressed"
      [] scenario = "ignition_pressed" /\ control_name = "Start" /\ pressed
            -> "start_pressed"
      [] OTHER -> "off_script"

\* the controls whose edges are fed to a model of type t
FedControls(t) == {DefaultControlMap[s] : s \in DOMAIN TypeDefaults(t)}

\* on_control_change of the model built; logical_state reaches only the
\* payload of the vessel_control event
OnControlChangeIn(v, control_name, pressed) ==
    CASE model_type = "mech" -> MechOnControlChange(v, control_name, pressed)
      [] model_type = "ship" -> ShipOnControlChange(v, control_name, pressed)
      [] model_type = "app"  -> AppOnControlChange(v, control_name, pressed)

OnControlChange(control_name, pressed, logical_state) ==
    /\ model_type \in {"mech", "ship", "app"}
    /\ LET v == OnControlChangeIn(VesselValue, control_name, pressed)
       IN  /\ control_state' = v.cs
           /\ vstate' = v.st
           /\ events' = v.q
           /\ published' = v.pub
    /\ scenario' = ScenarioNext(control_name, pressed)
    /\ UNCHANGED <<model_type, model_config, control_map>>
    /\ UNCHANGED <<maxlen, event_sink, now, ret>>
    /\ UNCHANGED <<qhist, driver_vars, engine_vars>>

\* CoreVesselModel.on_boot_complete
OnBootComplete ==
    /\ model_type \in {"mech", "ship", "app"}
    /\ LET v == Emit([VesselValue EXCEPT !.st.online = TRUE,
                                         !.st.startup_state = "boot_complete"],
                     "vessel_boot_complete", "state")
       IN  /\ vstate' = v.st
           /\ events' = v.q
           /\ published' = v.pub
    /\ scenario' = "off_script"
    /\ UNCHANGED <<model_type, model_config, control_map, control_state>>
    /\ UNCHANGED <<maxlen, event_sink, now, ret>>
    /\ UNCHANGED <<qhist, driver_vars, engine_vars>>

\* CoreVesselModel.reload_config: the map is replaced, the defaults of
\* __init__ are not applied again, the runtime state is kept
ReloadedControlMap(cfg) == cfg.control_map

ReloadConfig(cfg) ==
    /\ model_type \in {"mech", "ship", "app"}
    /\ model_config' = cfg
    /\ control_map' = ReloadedControlMap(cfg)
    /\ scenario' = "off_script"
    /\ UNCHANGED <<model_type, control_state, vstate>>
    /\ UNCHANGED qvars
    /\ UNCHANGED <<qhist, driver_vars, engine_vars>>

\* the runtime loop empties the queue once per cycle and consumes the
\* returned list within the cycle
VesselDrain ==
    /\ events # <<>>
    /\ ret' = <<>>
    /\ events' = DrainRest(events)
    /\ UNCHANGED <<maxlen, event_sink, published, now>>
    /\ UNCHANGED <<qhist, driver_vars, engine_vars>>
    /\ UNCHANGED <<vvars, vhist>>

\* no vessel model built
VesselIdle ==
    /\ model_type = "none"
    /\ model_config = [control_map |-> DefaultControlMap, auto_queue_start |-> FALSE,
                       auto_queue_powerup_macro |-> FALSE]
    /\ control_map = DefaultControlMap
    /\ control_state = [c \in VesselControls |-> FALSE]
    /\ vstate = [power_state |-> "offline", startup_state |-> "idle",
                 reactor_ready |-> FALSE, online |-> FALSE]
    /\ scenario = "off_script"

\* capacity of the queue the vessel models write to
VesselQueueSize == 1

\* build_vessel_model + the model's __init__
VesselInit ==
    /\ model_type \in {"mech", "ship", "app"}
    /\ model_config \in VesselConfigs
    /\ control_map = SetDefaults(model_config.control_map, TypeDefaults(model_type))
    /\ control_state = [c \in VesselControls |-> FALSE]
    /\ vstate = [power_state |-> "offline", startup_state |-> InitialStartup(model_type),
                 reactor_ready |-> FALSE, online |-> FALSE]
    /\ scenario = "initial"
    /\ events = <<>>
    /\ maxlen = Capacity(VesselQueueSize)
    /\ event_sink = "none"
    /\ published = "skipped"
    /\ now = 0
    /\ ret = <<>>
    /\ last_op = "init"
    /\ pushed = <<>>
    /\ pushed_before = <<>>
    /\ drains_in_row = 0

\* the logical_state argument only reaches the payload of the
\* vessel_control event
LogicalStateArgs == {"True"}

OnControlChangeStep ==
    \E c \in FedControls(model_type), p \in BOOLEAN, l \in LogicalStateArgs :
        OnControlChange(c, p, l)

ReloadConfigStep == \E cfg \in VesselConfigs : ReloadConfig(cfg)

VesselNext ==
    \/ OnControlChangeStep
    \/ OnBootComplete
    \/ ReloadConfigStep
    \/ VesselDrain

-----------------------------------------------------------------------------
(* LED report codec *)

LED_ID_MIN == 4
LED_ID_MAX == 41
LED_ID_UNUSED == {34}
RAW_LED_DATA_LENGTH == 22
INTENSITY_MIN == 0
INTENSITY_MAX == 15
MAX_LIGHT_INTENSITY == 15
MIN_LIGHT_INTENSITY == 0

RECURSIVE BitAnd(_, _)
\* a & b on naturals
BitAnd(a, b) ==
    IF a = 0 \/ b = 0 THEN 0
    ELSE (a % 2) * (b % 2) + 2 * BitAnd(a \div 2, b \div 2)

RECURSIVE BitOr(_, _)
\* a | b on naturals
BitOr(a, b) ==
    IF a = 0 THEN b
    ELSE IF b = 0 THEN a
    ELSE Max(a % 2, b % 2) + 2 * BitOr(a \div 2, b \div 2)

\* SBCDriver._clamp_intensity
ClampIntensity(value) ==
    IF value < INTENSITY_MIN THEN INTENSITY_MIN
    ELSE IF value > INTENSITY_MAX THEN INTENSITY_MAX
    ELSE value

\* the guard of set_led: ids that are written
LedIdValid(led_id) ==
    ~(led_id \in LED_ID_UNUSED \/ led_id < LED_ID_MIN \/ led_id > LED_ID_MAX)

\* a set_led that packs odd ids into the low nibble and even ids into the
\* high nibble
SetLedSwapped(L, led_id, intensity) ==
    IF ~LedIdValid(led_id) THEN L
    ELSE LET capped   == ClampIntensity(intensity)
             hex_pos  == led_id % 2
             byte_pos == (led_id - hex_pos) \div 2
             masked   == BitAnd(L.raw[byte_pos], IF hex_pos = 1 THEN 240 ELSE 15)
         IN  [raw |-> [L.raw EXCEPT ![byte_pos] =
                          masked + capped * (IF hex_pos = 1 THEN 1 ELSE 16)],
              st  |-> [L.st EXCEPT ![led_id] = capped]]

\* SBCDriver.set_led on the pair (raw_led_data, led_state)
SetLedIn(L, led_id, intensity) ==
    IF ~LedIdValid(led_id) THEN L
    ELSE LET capped   == ClampIntensity(intensity)
             hex_pos  == led_id % 2
             byte_pos == (led_id - hex_pos) \div 2
             masked   == BitAnd(L.raw[byte_pos], IF hex_pos = 1 THEN 15 ELSE 240)
         IN  [raw |-> [L.raw EXCEPT ![byte_pos] =
                          masked + capped * (IF hex_pos = 1 THEN 16 ELSE 1)],
              st  |-> [L.st EXCEPT ![led_id] = capped]]

RECURSIVE SetAllFrom(_, _, _)
\* the loop of set_all_leds from led_id upwards
SetAllFrom(L, led_id, intensity) ==
    IF led_id > LED_ID_MAX THEN L
    ELSE IF led_id \in LED_ID_UNUSED THEN SetAllFrom(L, led_id + 1, intensity)
    ELSE LET N == SetLedIn(L, led_id, intensity)
         IN  \* the write of this iteration is complete before the next begins
             IF N.raw = N.raw THEN SetAllFrom(N, led_id + 1, intensity) ELSE L

\* SBCDriver.set_all_leds
SetAllLedsIn(L, intensity) == SetAllFrom(L, LED_ID_MIN, intensity)

LedValue == [raw |-> raw_led_data, st |-> led_state]

\* the arguments set_led is called with here
LedIdArgs     == LED_ID_MIN - 2 .. LED_ID_MAX + 2
IntensityArgs == INTENSITY_MIN - 1 .. INTENSITY_MAX + 1
FillArgs      == {INTENSITY_MAX}

SetLed(led_id, intensity) ==
    /\ last_set.op # "set_led"
    /\ LET L == SetLedIn(LedValue, led_id, intensity)
       IN  /\ raw_led_data' = L.raw
           /\ led_state' = L.st
           /\ last_set' = [op |-> "set_led", led_id |-> led_id,
                           intensity |-> intensity,
                           same |-> (L = LedValue)]
    /\ UNCHANGED <<lvars, lhist, avars, gvars>>
    /\ UNCHANGED not_driver

SetAllLeds(intensity) ==
    /\ last_set.op = "init"
    /\ LET L == SetAllLedsIn(LedValue, intensity)
       IN  /\ raw_led_data' = L.raw
           /\ led_state' = L.st
    /\ last_set' = [last_set EXCEPT !.op = "set_all_leds", !.intensity = intensity]
    /\ UNCHANGED <<lvars, lhist, avars, gvars>>
    /\ UNCHANGED not_driver

\* SBCDriver.__init__
CodecIdle ==
    /\ raw_led_data = [i \in 0 .. RAW_LED_DATA_LENGTH - 1 |-> 0]
    /\ led_state = [i \in LED_ID_MIN .. LED_ID_MAX |-> 0]
    /\ last_set = [op |-> "init", led_id |-> 0, intensity |-> 0,
                   same |-> TRUE]

SetLedStep == \E id \in LedIdArgs, i \in IntensityArgs : SetLed(id, i)

SetAllLedsStep == \E i \in FillArgs : SetAllLeds(i)

CodecNext ==
    \/ SetLedStep
    \/ SetAllLedsStep

\* SBCDriver.GEAR_LED_MIN, GEAR_LED_MAX, GEAR_LED_NEUTRAL, GEAR_LED_FIRST
GEAR_LED_MIN     == 35
GEAR_LED_MAX     == 41
GEAR_LED_NEUTRAL == 36
GEAR_LED_FIRST   == 37

RECURSIVE GearLedsOffFrom(_, _)
\* the first loop of update_gear_leds from led_id upwards: every gear LED
\* that is lit is set to 0
GearLedsOffFrom(L, led_id) ==
    IF led_id > GEAR_LED_MAX THEN L
    ELSE LET N == IF L.st[led_id] # 0 THEN SetLedIn(L, led_id, 0) ELSE L
         IN  IF N.raw = N.raw THEN GearLedsOffFrom(N, led_id + 1) ELSE L

\* SBCDriver.update_gear_leds; gear_value is <<>> for None, <<g>> otherwise.
\* dirty only decides whether the report is sent
UpdateGearLedsIn(L, gear_value, intensity) ==
    LET N == GearLedsOffFrom(L, GEAR_LED_MIN)
    IN  IF gear_value = <<>> THEN N
        ELSE LET target == IF gear_value[1] < 0
                           THEN GEAR_LED_FIRST + gear_value[1]
                           ELSE GEAR_LED_NEUTRAL + gear_value[1]
             IN  IF target < GEAR_LED_MIN \/ target > GEAR_LED_MAX THEN N
                 ELSE SetLedIn(N, target, intensity)

\* the three calls made in any order, any number of times
LedCall(op, L) ==
    /\ raw_led_data' = L.raw
    /\ led_state' = L.st
    /\ last_set' = [op |-> op, led_id |-> 0, intensity |-> 0,
                    same |-> (L = LedValue)]
    /\ UNCHANGED <<lvars, lhist, avars, gvars>>
    /\ UNCHANGED not_driver

SetLedCall(led_id, intensity) ==
    LedCall("set_led", SetLedIn(LedValue, led_id, intensity))

SetAllLedsCall(intensity) ==
    LedCall("set_all_leds", SetAllLedsIn(LedValue, intensity))

UpdateGearLedsCall(gear_value, intensity) ==
    LedCall("update_gear_leds",
            UpdateGearLedsIn(LedValue, gear_value, intensity))

\* the arguments of the calls: ids on both sides of the range and of the
\* unused id, intensities on both sides of 0..15, every kind of gear value
PackedLedIdArgs     == {3, 4, 5, 34, 35, 41, 42}
PackedIntensityArgs == {-1, 0, 9, 16}
GearLedArgs         == {<<>>, <<-3>>, <<-2>>, <<-1>>, <<0>>, <<5>>, <<6>>}
GearIntensityArgs   == {8, 20}

PackedSetLedStep ==
    \E id \in PackedLedIdArgs, i \in PackedIntensityArgs : SetLedCall(id, i)

PackedSetAllLedsStep == \E i \in PackedIntensityArgs : SetAllLedsCall(i)

UpdateGearLedsStep ==
    \E g \in GearLedArgs, i \in GearIntensityArgs : UpdateGearLedsCall(g, i)

PackedNext ==
    \/ PackedSetLedStep
    \/ PackedSetAllLedsStep
    \/ UpdateGearLedsStep

-----------------------------------------------------------------------------
(* Axis decode: SBCDriver._axis_value and _signed_axis_value *)

\* SBCDriver._axis_value: x << 2 is x * 4, x >> 6 is x \div 64, 0x3FF = 1023
AxisValue(buf, first_index, second_index) ==
    LET temp  == buf[first_index] * 4
        temp2 == buf[second_index] \div 64
    IN  BitAnd(BitOr(temp, temp2), 1023)

\* the signed decode without the sign extension
SignedAxisValueNoExtend(buf, first_index, second_index) ==
    LET temp  == buf[first_index] * 4
        temp2 == buf[second_index] \div 64
        temp3 == BitAnd(BitOr(temp, temp2), 1023)
    IN  IF BitAnd(temp3, 32768) # 0 THEN temp3 - 65536 ELSE temp3

\* SBCDriver._signed_axis_value: 0xFC00 = 64512, 0x8000 = 32768,
\* 0x10000 = 65536
SignedAxisValue(buf, first_index, second_index) ==
    LET temp  == buf[first_index] * 4
        temp2 == buf[second_index] \div 64
        temp3 == BitAnd(BitOr(temp, temp2), 1023)
        temp4 == IF buf[first_index] >= 128 THEN BitOr(temp3, 64512) ELSE temp3
    IN  IF BitAnd(temp4, 32768) # 0 THEN temp4 - 65536 ELSE temp4

\* the values of a byte of the report
ByteArgs == 0 .. 255

\* both decodes applied to the pair of bytes
DecodeAxis ==
    /\ axis_out = <<>>
    /\ axis_out' = <<AxisValue(axis_buf, 1, 2), SignedAxisValue(axis_buf, 1, 2)>>
    /\ UNCHANGED axis_buf
    /\ UNCHANGED <<cvars, chist, lvars, lhist, gvars>>
    /\ UNCHANGED not_driver

\* no axis decoded
GearIdle ==
    /\ gear_raw = 0
    /\ gear_parsed = <<>>

DecodeIdle ==
    /\ axis_buf = <<0, 0>>
    /\ axis_out = <<>>
    /\ GearIdle

\* a report whose axis bytes are any pair of bytes, not yet decoded
DecodeInit ==
    /\ axis_buf \in ByteArgs \X ByteArgs
    /\ axis_out = <<>>
    /\ GearIdle

DecodeNext == DecodeAxis

-----------------------------------------------------------------------------
(* Gear decode: SBCDriver.parse_raw_state *)

\* the two sentinels exchanged
GearValueSwapped(raw) ==
    IF raw = 255 THEN -2 ELSE IF raw = 254 THEN -1 ELSE raw

\* parse_raw_state: gear_parsed from gear_raw = int(buf[25])
GearValue(raw) ==
    IF raw = 255 THEN -1 ELSE IF raw = 254 THEN -2 ELSE raw

\* parse_raw_state, its "gear" entry
ParseRawStateGear ==
    /\ gear_parsed = <<>>
    /\ gear_parsed' = <<GearValue(gear_raw)>>
    /\ UNCHANGED gear_raw
    /\ UNCHANGED <<cvars, chist, lvars, lhist, avars>>
    /\ UNCHANGED not_driver

\* a report whose byte 25 is any byte, not yet parsed
GearInit ==
    /\ gear_raw \in ByteArgs
    /\ gear_parsed = <<>>

GearNext == ParseRawStateGear

-----------------------------------------------------------------------------
(* LED mode machine: SBCDriver.handle_button_leds *)

\* SBCDriver.led_name_to_id
led_name_to_id ==
    "Eject" :> 4
    @@ "CockpitHatch" :> 5
    @@ "Ignition" :> 6
    @@ "Start" :> 7
    @@ "OpenClose" :> 8
    @@ "MapZoomInOut" :> 9
    @@ "ModeSelect" :> 10
    @@ "SubMonitorModeSelect" :> 11
    @@ "MainMonitorZoomIn" :> 12
    @@ "MainMonitorZoomOut" :> 13
    @@ "ForecastShootingSystem" :> 14
    @@ "Manipulator" :> 15
    @@ "LineColorChange" :> 16
    @@ "Washing" :> 17
    @@ "Extinguisher" :> 18
    @@ "Chaff" :> 19
    @@ "TankDetach" :> 20
    @@ "Override" :> 21
    @@ "NightScope" :> 22
    @@ "F1" :> 23
    @@ "F2" :> 24
    @@ "F3" :> 25
    @@ "MainWeaponControl" :> 26
    @@ "SubWeaponControl" :> 27
    @@ "MagazineChange" :> 28
    @@ "Comm1" :> 29
    @@ "Comm2" :> 30
    @@ "Comm3" :> 31
    @@ "Comm4" :> 32
    @@ "Comm5" :> 33
    @@ "GearR" :> 35
    @@ "GearN" :> 36
    @@ "Gear1" :> 37
    @@ "Gear2" :> 38
    @@ "Gear3" :> 39
    @@ "Gear4" :> 40
    @@ "Gear5" :> 41

\* SBCDriver.button_to_led_name, in insertion order of the button indices
button_to_led_name ==
    3 :> "Eject"
    @@ 4 :> "CockpitHatch"
    @@ 5 :> "Ignition"
    @@ 6 :> "Start"
    @@ 7 :> "OpenClose"
    @@ 8 :> "MapZoomInOut"
    @@ 9 :> "ModeSelect"
    @@ 10 :> "SubMonitorModeSelect"
    @@ 11 :> "MainMonitorZoomIn"
    @@ 12 :> "MainMonitorZoomOut"
    @@ 13 :> "ForecastShootingSystem"
    @@ 14 :> "Manipulator"
    @@ 15 :> "LineColorChange"
    @@ 16 :> "Washing"
    @@ 17 :> "Extinguisher"
    @@ 18 :> "Chaff"
    @@ 19 :> "TankDetach"
    @@ 20 :> "Override"
    @@ 21 :> "NightScope"
    @@ 22 :> "F1"
    @@ 23 :> "F2"
    @@ 24 :> "F3"
    @@ 25 :> "MainWeaponControl"
    @@ 26 :> "SubWeaponControl"
    @@ 27 :> "MagazineChange"
    @@ 28 :> "Comm1"
    @@ 29 :> "Comm2"
    @@ 30 :> "Comm3"
    @@ 31 :> "Comm4"
    @@ 32 :> "Comm5"

\* SBCDriver.button_name_to_index: the position of each name in button_names
button_name_to_index ==
    "RightJoyMainWeapon" :> 0
    @@ "RightJoyFire" :> 1
    @@ "RightJoyLockOn" :> 2
    @@ "Eject" :> 3
    @@ "CockpitHatch" :> 4
    @@ "Ignition" :> 5
    @@ "Start" :> 6
    @@ "MultiMonOpenClose" :> 7
    @@ "MultiMonMapZoomInOut" :> 8
    @@ "MultiMonModeSelect" :> 9
    @@ "MultiMonSubMonitor" :> 10
    @@ "MainMonZoomIn" :> 11
    @@ "MainMonZoomOut" :> 12
    @@ "FunctionFSS" :> 13
    @@ "FunctionManipulator" :> 14
    @@ "FunctionLineColorChange" :> 15
    @@ "Washing" :> 16
    @@ "Extinguisher" :> 17
    @@ "Chaff" :> 18
    @@ "FunctionTankDetach" :> 19
    @@ "FunctionOverride" :> 20
    @@ "FunctionNightScope" :> 21
    @@ "FunctionF1" :> 22
    @@ "FunctionF2" :> 23
    @@ "FunctionF3" :> 24
    @@ "WeaponCtrlMain" :> 25
    @@ "WeaponCtrlSub" :> 26
    @@ "WeaponCtrlMagazineChange" :> 27
    @@ "Comm1" :> 28
    @@ "Comm2" :> 29
    @@ "Comm3" :> 30
    @@ "Comm4" :> 31
    @@ "Comm5" :> 32
    @@ "LeftJoySightChange" :> 33
    @@ "ToggleFilterControl" :> 34
    @@ "ToggleOxygenSupply" :> 35
    @@ "ToggleFuelFlowRate" :> 36
    @@ "ToggleBufferMaterial" :> 37
    @@ "ToggleVTLocation" :> 38

\* str.lower on the words that occur in LED names and mode strings
LowerCase ==
    "Eject" :> "eject"
    @@ "CockpitHatch" :> "cockpithatch"
    @@ "Ignition" :> "ignition"
    @@ "Start" :> "start"
    @@ "OpenClose" :> "openclose"
    @@ "MapZoomInOut" :> "mapzoominout"
    @@ "ModeSelect" :> "modeselect"
    @@ "SubMonitorModeSelect" :> "submonitormodeselect"
    @@ "MainMonitorZoomIn" :> "mainmonitorzoomin"
    @@ "MainMonitorZoomOut" :> "mainmonitorzoomout"
    @@ "ForecastShootingSystem" :> "forecastshootingsystem"
    @@ "Manipulator" :> "manipulator"
    @@ "LineColorChange" :> "linecolorchange"
    @@ "Washing" :> "washing"
    @@ "Extinguisher" :> "extinguisher"
    @@ "Chaff" :> "chaff"
    @@ "TankDetach" :> "tankdetach"
    @@ "Override" :> "override"
    @@ "NightScope" :> "nightscope"
    @@ "F1" :> "f1"
    @@ "F2" :> "f2"
    @@ "F3" :> "f3"
    @@ "MainWeaponControl" :> "mainweaponcontrol"
    @@ "SubWeaponControl" :> "subweaponcontrol"
    @@ "MagazineChange" :> "magazinechange"
    @@ "Comm1" :> "comm1"
    @@ "Comm2" :> "comm2"
    @@ "Comm3" :> "comm3"
    @@ "Comm4" :> "comm4"
    @@ "Comm5" :> "comm5"
    @@ "GearR" :> "gearr"
    @@ "GearN" :> "gearn"
    @@ "Gear1" :> "gear1"
    @@ "Gear2" :> "gear2"
    @@ "Gear3" :> "gear3"
    @@ "Gear4" :> "gear4"
    @@ "Gear5" :> "gear5"
    @@ "Latched" :> "latched"
    @@ "COMM2" :> "comm2"
    @@ "Bogus" :> "bogus"
    @@ "Toggle" :> "toggle"

\* the keys of button_to_led_name in the order handle_button_leds visits them
button_order ==
    <<3, 4, 5, 6, 7, 8, 9, 10, 11, 12, 13, 14, 15, 16, 17, 18, 19, 20,
      21, 22, 23, 24, 25, 26, 27, 28, 29, 30, 31, 32>>

\* A mode string is modelled as the sequence of its words and of the
\* characters the parser looks at: ":", "," and " " (white space).
IsSpace(tok) == tok = " "

Lower(tok) == IF tok \in DOMAIN LowerCase THEN LowerCase[tok] ELSE tok

\* str.lower
LowerStr(s) == [i \in DOMAIN s |-> Lower(s[i])]

RECURSIVE LStrip(_)
LStrip(s) == IF s # <<>> /\ IsSpace(Head(s)) THEN LStrip(Tail(s)) ELSE s

RECURSIVE RStrip(_)
RStrip(s) ==
    IF s # <<>> /\ IsSpace(s[Len(s)]) THEN RStrip(SubSeq(s, 1, Len(s) - 1))
    ELSE s

\* str.strip
Strip(s) == RStrip(LStrip(s))

\* position of the first occurrence of tok in s, 0 when there is none
RECURSIVE FindFrom(_, _, _)
FindFrom(s, tok, i) ==
    IF i > Len(s) THEN 0
    ELSE IF s[i] = tok THEN i
    ELSE FindFrom(s, tok, i + 1)

\* str.split(tok): the pieces between the occurrences of tok
RECURSIVE Split(_, _)
Split(s, tok) ==
    LET i == FindFrom(s, tok, 1)
    IN  IF i = 0 THEN <<s>>
        ELSE <<SubSeq(s, 1, i - 1)>> \o Split(SubSeq(s, i + 1, Len(s)), tok)

\* str.split(tok, 1): at most one split, at the first occurrence
Split1(s, tok) ==
    LET i == FindFrom(s, tok, 1)
    IN  IF i = 0 THEN <<s>>
        ELSE <<SubSeq(s, 1, i - 1), SubSeq(s, i + 1, Len(s))>>

\* the peers of a latched mode string: the stripped, non-empty items, in the
\* order they are written
RECURSIVE StripItems(_)
StripItemsReversed(items) ==
    IF items = <<>> THEN <<>>
    ELSE LET p == Strip(Head(items))
         IN  StripItems(Tail(items)) \o (IF p # <<>> THEN <<p>> ELSE <<>>)
StripItems(items) ==
    IF items = <<>> THEN <<>>
    ELSE LET p == Strip(Head(items))
         IN  (IF p # <<>> THEN <<p>> ELSE <<>>) \o StripItems(Tail(items))

\* SBCDriver._parse_led_mode
ParseLedMode(mode_raw) ==
    LET parts == Split1(mode_raw, ":")
        mode  == LowerStr(Strip(parts[1]))
    IN  IF mode # <<"latched">> \/ Len(parts) = 1
        THEN [mode |-> mode, peers |-> <<>>]
        ELSE [mode |-> mode, peers |-> StripItems(Split(parts[2], ","))]

\* SBCDriver.led_name_alias
led_name_alias ==
    [k \in {Lower(n) : n \in DOMAIN led_name_to_id} |->
        CHOOSE n \in DOMAIN led_name_to_id : Lower(n) = k]

\* SBCDriver.led_name_to_button_index
led_name_to_button_index ==
    [n \in {button_to_led_name[b] : b \in DOMAIN button_to_led_name} |->
        CHOOSE b \in DOMAIN button_to_led_name : button_to_led_name[b] = n]

\* config_loader.build_default_led_modes
build_default_led_modes ==
    [n \in DOMAIN led_name_to_id |->
        IF n \in {"Eject", "CockpitHatch", "Ignition", "Start"}
        THEN <<"flash">> ELSE <<"toggle">>]

\* a lookup that takes the lowercased peer name itself as the key
PeerKeyLowered(peer_name) == LowerStr(peer_name)

\* self.led_name_alias.get(peer_name.lower(), peer_name)
PeerKey(peer_name) ==
    LET k == LowerStr(peer_name)
    IN  IF Len(k) = 1 /\ k[1] \in DOMAIN led_name_alias
        THEN <<led_name_alias[k[1]]>> ELSE peer_name

NoneId == 0

\* self.led_name_to_id.get(peer_key)
PeerId(peer_key) ==
    IF Len(peer_key) = 1 /\ peer_key[1] \in DOMAIN led_name_to_id
    THEN led_name_to_id[peer_key[1]] ELSE NoneId

NoneButton == -1

\* self.led_name_to_button_index.get(peer_key)
PeerButton(peer_key) ==
    IF Len(peer_key) = 1 /\ peer_key[1] \in DOMAIN led_name_to_button_index
    THEN led_name_to_button_index[peer_key[1]] ELSE NoneButton

\* SBCDriver._button_state: a report is modelled by the set `down` of the
\* positions i whose bit is set, position i being bit i % 8 of byte
\* 2 + i // 8 (so position -1 is bit 7 of byte 1)
ButtonState(buf, button_index) ==
    IF button_index >= 39 THEN FALSE
    ELSE button_index \in buf.down

\* SBCDriver.get_button_state, on the control data C
GetButtonState(C, button_index) ==
    IF C.raw_control_data.none THEN FALSE
    ELSE ButtonState(C.raw_control_data, button_index)

\* SBCDriver.button_changed, on the control data C
ButtonChanged(C, button_index) ==
    IF C.raw_control_data.none \/ C.prev_control_data.none THEN FALSE
    ELSE ButtonState(C.raw_control_data, button_index)
            # ButtonState(C.prev_control_data, button_index)

PressEdge(C, button_index) ==
    ButtonChanged(C, button_index) /\ GetButtonState(C, button_index)

\* the new intensity of a toggle or latched LED on a press edge
FlipIntensityStuck(current) == MAX_LIGHT_INTENSITY
FlipIntensity(current) ==
    IF current > 0 THEN MIN_LIGHT_INTENSITY ELSE MAX_LIGHT_INTENSITY

\* set_led(led_id, intensity, send=False) made while button `by` is handled;
\* D carries the LED report, led_state and the writes made so far in the call
LedWrite(D, led_id, intensity, by) ==
    LET L == SetLedIn([raw |-> D.raw, st |-> D.st], led_id, intensity)
    IN  [raw |-> L.raw, st |-> L.st,
         log |-> Append(D.log, <<led_id, intensity, by>>)]

\* handle_button_leds, latched mode, press edge that turned the LED on: every
\* peer LED that is lit is switched off, in the order of the peer list
RECURSIVE PeersOff(_, _, _)
PeersOff(D, latched_peers, by) ==
    IF latched_peers = <<>> THEN D
    ELSE LET peer_id == PeerId(PeerKey(Head(latched_peers)))
             N == IF peer_id = NoneId THEN D
                  ELSE IF D.st[peer_id] > 0
                       THEN LedWrite(D, peer_id, MIN_LIGHT_INTENSITY, by)
                       ELSE D
         IN  PeersOff(N, Tail(latched_peers), by)

\* handle_button_leds, latched mode: a press edge on a peer's control
\* switches this LED off when it is lit
RECURSIVE PeerEdges(_, _, _, _, _)
PeerEdges(D, C, latched_peers, led_id, by) ==
    IF latched_peers = <<>> THEN D
    ELSE LET peer_button == PeerButton(PeerKey(Head(latched_peers)))
             N == IF peer_button = NoneButton THEN D
                  ELSE IF PressEdge(C, peer_button) /\ D.st[led_id] > 0
                       THEN LedWrite(D, led_id, MIN_LIGHT_INTENSITY, by)
                       ELSE D
         IN  PeerEdges(N, C, Tail(latched_peers), led_id, by)

\* handle_button_leds: the mode branches of the loop body, for one button
\* whose LED is led_id and whose parsed mode is parsed
ButtonLedsMode(D, C, button_index, led_id, parsed) ==
    IF parsed.mode = <<"toggle">> THEN
        IF PressEdge(C, button_index)
        THEN LedWrite(D, led_id, FlipIntensity(D.st[led_id]), button_index)
        ELSE D
    ELSE IF parsed.mode = <<"latched">> THEN
        LET new_intensity == FlipIntensity(D.st[led_id])
            W  == LedWrite(D, led_id, new_intensity, button_index)
            D1 == IF PressEdge(C, button_index)
                  THEN IF new_intensity = MAX_LIGHT_INTENSITY
                       THEN PeersOff(W, parsed.peers, button_index)
                       ELSE W
                  ELSE D
        IN  PeerEdges(D1, C, parsed.peers, led_id, button_index)
    ELSE IF parsed.mode = <<"momentary">> THEN
        LET intensity == IF GetButtonState(C, button_index)
                         THEN MAX_LIGHT_INTENSITY ELSE MIN_LIGHT_INTENSITY
        IN  IF D.st[led_id] # intensity
            THEN LedWrite(D, led_id, intensity, button_index) ELSE D
    ELSE IF parsed.mode = <<"flash">> THEN
        LET intensity == IF GetButtonState(C, button_index) /\ C.flash_on
                         THEN MAX_LIGHT_INTENSITY ELSE MIN_LIGHT_INTENSITY
        IN  IF D.st[led_id] # intensity
            THEN LedWrite(D, led_id, intensity, button_index) ELSE D
    ELSE D

\* handle_button_leds: the body of the loop for one button
ButtonLeds(D, C, button_index) ==
    LET led_name == button_to_led_name[button_index]
        mode_raw == IF led_name \in DOMAIN C.led_modes
                    THEN C.led_modes[led_name] ELSE C.led_mode
    IN  ButtonLedsMode(D, C, button_index, led_name_to_id[led_name],
                       ParseLedMode(mode_raw))

\* handle_button_leds: the loop over the items of button_to_led_name
RECURSIVE ButtonLedsLoop(_, _, _)
ButtonLedsLoop(D, C, buttons) ==
    IF buttons = <<>> THEN D
    ELSE LET N == ButtonLeds(D, C, Head(buttons))
         IN  \* the iteration is complete before the next one begins
             IF N.log = N.log THEN ButtonLedsLoop(N, C, Tail(buttons))
             ELSE D

\* SBCDriver.handle_button_leds on the control data C, where elapsed tells
\* whether FLASH_PERIOD_S has passed since the last flash toggle; the result
\* carries the LED report, led_state, the writes of the call and _flash_on
HandleButtonLeds(L, C, elapsed) ==
    IF C.raw_control_data.none
    THEN [raw |-> L.raw, st |-> L.st, log |-> <<>>, flash_on |-> C.flash_on]
    ELSE LET flash == IF elapsed THEN ~C.flash_on ELSE C.flash_on
             D == ButtonLedsLoop([raw |-> L.raw, st |-> L.st, log |-> <<>>],
                                 [C EXCEPT !.flash_on = flash],
                                 button_order)
         IN  [raw |-> D.raw, st |-> D.st, log |-> D.log, flash_on |-> flash]

\* a logical state that follows the press state in every mode
UpdateLogicalStatesPhysical(logical, L, C) ==
    IF C.raw_control_data.none THEN logical
    ELSE [name \in DOMAIN button_name_to_index |->
              GetButtonState(C, button_name_to_index[name])]

\* SBCDriver.update_logical_states(led_mode) on the control data C and the
\* LED state L
UpdateLogicalStates(logical, L, C) ==
    IF C.raw_control_data.none THEN logical
    ELSE [name \in DOMAIN button_name_to_index |->
            LET idx      == button_name_to_index[name]
                physical == GetButtonState(C, idx)
            IN  IF idx \notin DOMAIN button_to_led_name THEN physical
                ELSE
                LET led_name == button_to_led_name[idx]
                    mode_raw == IF led_name \in DOMAIN C.led_modes
                                THEN C.led_modes[led_name] ELSE C.led_mode
                    mode     == ParseLedMode(mode_raw).mode
                    led_on   == IF led_name \in DOMAIN led_name_to_id
                                THEN L.st[led_name_to_id[led_name]] > 0
                                ELSE FALSE
                IN  IF mode \in {<<"toggle">>, <<"latched">>} THEN led_on
                    ELSE physical]

\* the default LED mode of the effective config, as apply_config returns it
led_mode == <<"toggle">>

\* the led_modes sections of the configs: per-LED mode strings, stripped
UserLedModes ==
    { "Comm1" :> <<"latched", ":", "Comm2", ",", "Comm3">>
        @@ "Comm2" :> <<"latched", ":", "Comm1">>,
      "Comm1" :> <<"Latched", " ", ":", " ", "Comm3", ",", ",", "COMM2",
                   ",", " ", "Gear1", ",", " ", "Bogus">>
        @@ "Comm2" :> <<"Toggle">>
        @@ "Comm3" :> <<"momentary">> }

\* led_modes sections for the flash and momentary modes: Eject and
\* CockpitHatch flash by default; Comm1 momentary, alone and as a peer (with
\* Eject) of the latched Comm3
FlashLedModes ==
    { "Comm1" :> <<"momentary">>,
      "Comm1" :> <<"momentary">>
        @@ "Comm3" :> <<"latched", ":", "Comm1", ",", "Eject">> }

\* apply_config: the defaults overlaid with the configured modes
AppliedLedModes(user) ==
    [n \in DOMAIN led_name_to_id |->
        IF n \in DOMAIN user THEN user[n] ELSE build_default_led_modes[n]]

\* the buttons the reports of this model press, and the LEDs written from
\* outside handle_button_leds
PressedArgs  == {28, 29, 30}
\* the reports: every set of these buttons, and two reports that also press
\* RightJoyMainWeapon (button 0), which has no LED
ReportArgs   == SUBSET PressedArgs \cup {{0}, {0, 28, 30}}
\* reports that hold Eject and CockpitHatch (buttons 3 and 4, flash mode)
\* with and without Comm1 and Comm3
FlashReportArgs ==
    {{}, {3}, {3, 4}, {28}, {30}, {3, 28}, {28, 30}, {3, 28, 30}}
WrittenLeds  == {30, 31, 37}
WrittenArgs  == {9}
ElapsedArgs  == {FALSE}    \* no flash-mode button is pressed in these reports

ControlData ==
    [raw_control_data |-> raw_control_data,
     prev_control_data |-> prev_control_data,
     led_modes |-> led_modes, led_mode |-> led_mode, flash_on |-> flash_on]

\* SBCDriver.parse_state: the part that keeps the last two reports
ParseState(C, down) ==
    [C EXCEPT !.prev_control_data = C.raw_control_data,
              !.raw_control_data = [none |-> FALSE, down |-> down]]

\* the run of consecutive own press-edge writes of toggle LED led_id (button
\* by) after the writes of log: hist holds the values the LED had before each
\* of the last two such writes, and is emptied by any other write to the LED
RECURSIVE HistAfter(_, _, _, _, _)
HistAfter(hist, value, log, led_id, by) ==
    IF log = <<>> THEN hist
    ELSE LET e == Head(log)
         IN  IF e[1] # led_id THEN HistAfter(hist, value, Tail(log), led_id, by)
             ELSE IF e[3] = by
                  THEN HistAfter(LastN(Append(hist, value), 2), e[2],
                                 Tail(log), led_id, by)
                  ELSE HistAfter(<<>>, e[2], Tail(log), led_id, by)

\* the LED of a button
ButtonLedId(button_index) == led_name_to_id[button_to_led_name[button_index]]

IsToggleButton(button_index) ==
    ParseLedMode(led_modes[button_to_led_name[button_index]]).mode = <<"toggle">>

\* one iteration of the main loop up to the logical states: read a report,
\* parse_state, handle_button_leds, update_logical_states
Frame(down, elapsed) ==
    LET C == ParseState(ControlData, down)
    IN  \E R \in {HandleButtonLeds(LedValue, C, elapsed)} :
        /\ prev_control_data' = C.prev_control_data
        /\ raw_control_data' = C.raw_control_data
        /\ raw_led_data' = R.raw
        /\ led_state' = R.st
        /\ flash_on' = R.flash_on
        /\ logical_states' = UpdateLogicalStates(logical_states, R, C)
        /\ led_writes' = R.log
        /\ last_call' = "frame"
        /\ toggle_hist' =
              [b \in PressedArgs |->
                  IF IsToggleButton(b)
                  THEN HistAfter(toggle_hist[b], led_state[ButtonLedId(b)],
                                 R.log, ButtonLedId(b), b)
                  ELSE <<>>]
        /\ UNCHANGED <<led_modes, last_set, avars, gvars>>
        /\ UNCHANGED not_driver

\* set_led called before the main loop starts: an LED value left behind by
\* the startup effects
ExternalSetLed(led_id, intensity) ==
    /\ last_call = "init"
    /\ LET L == SetLedIn(LedValue, led_id, intensity)
       IN  /\ raw_led_data' = L.raw
           /\ led_state' = L.st
    /\ led_writes' = <<>>
    /\ last_call' = "set_led"
    /\ toggle_hist' = [b \in PressedArgs |->
                          IF ButtonLedId(b) = led_id THEN <<>>
                          ELSE toggle_hist[b]]
    /\ UNCHANGED <<avars, gvars>>
    /\ UNCHANGED <<raw_control_data, prev_control_data, led_modes, flash_on,
                   logical_states, last_set>>
    /\ UNCHANGED not_driver

\* SBCDriver.__init__: no report read yet, no LED modes set
LedModeIdle ==
    /\ raw_control_data = [none |-> TRUE, down |-> {}]
    /\ prev_control_data = [none |-> TRUE, down |-> {}]
    /\ led_modes = <<>>
    /\ flash_on = FALSE
    /\ logical_states = [name \in DOMAIN button_name_to_index |-> FALSE]
    /\ led_writes = <<>>
    /\ last_call = "init"
    /\ toggle_hist = [b \in PressedArgs |-> <<>>]

\* the driver after apply_config and set_led_modes
LedModeInit ==
    /\ raw_control_data = [none |-> TRUE, down |-> {}]
    /\ prev_control_data = [none |-> TRUE, down |-> {}]
    /\ led_modes \in {AppliedLedModes(u) : u \in UserLedModes}
    /\ flash_on = FALSE
    /\ logical_states = [name \in DOMAIN button_name_to_index |-> FALSE]
    /\ led_writes = <<>>
    /\ last_call = "init"
    /\ toggle_hist = [b \in PressedArgs |-> <<>>]

FrameStep ==
    \E down \in ReportArgs, elapsed \in ElapsedArgs : Frame(down, elapsed)

\* the driver after apply_config and set_led_modes, flash configs
FlashInit ==
    /\ raw_control_data = [none |-> TRUE, down |-> {}]
    /\ prev_control_data = [none |-> TRUE, down |-> {}]
    /\ led_modes \in {AppliedLedModes(u) : u \in FlashLedModes}
    /\ flash_on = FALSE
    /\ logical_states = [name \in DOMAIN button_name_to_index |-> FALSE]
    /\ led_writes = <<>>
    /\ last_call = "init"
    /\ toggle_hist = [b \in PressedArgs |-> <<>>]

\* a cycle in which FLASH_PERIOD_S may or may not have passed
FlashFrameStep ==
    \E down \in FlashReportArgs, elapsed \in BOOLEAN : Frame(down, elapsed)

FlashNext == FlashFrameStep

ExternalSetLedStep ==
    \E id \in WrittenLeds, i \in WrittenArgs : ExternalSetLed(id, i)

LedModeNext ==
    \/ FrameStep
    \/ ExternalSetLedStep

-----------------------------------------------------------------------------
(* Expression evaluator: MacroEngine._eval_expr *)

\* Python values: tag says which of the fields b, n, s holds the value
PyBool(b) == [tag |-> "bool", b |-> b, n |-> 0, s |-> ""]
PyInt(n)  == [tag |-> "int", b |-> FALSE, n |-> n, s |-> ""]
PyStr(s)  == [tag |-> "str", b |-> FALSE, n |-> 0, s |-> s]
PyNone    == [tag |-> "none", b |-> FALSE, n |-> 0, s |-> ""]

\* truth value of a Python value, as all(), any() and not take it
Truthy(v) ==
    CASE v.tag = "bool" -> v.b
      [] v.tag = "int"  -> v.n # 0
      [] v.tag = "str"  -> v.s # ""
      [] OTHER          -> FALSE

IsNumber(v) == v.tag \in {"bool", "int"}

\* the number a bool or int compares as
NumberOf(v) == IF v.tag = "bool" THEN (IF v.b THEN 1 ELSE 0) ELSE v.n

\* left == right
PyEq(left, right) ==
    IF IsNumber(left) /\ IsNumber(right) THEN NumberOf(left) = NumberOf(right)
    ELSE left.tag = right.tag /\ left.s = right.s

\* an ordering comparison raises TypeError unless both operands are numbers
\* (str against str does not occur in the expressions evaluated here)
OrderingRaises(left, right) == ~(IsNumber(left) /\ IsNumber(right))

\* the test one (op, comparator) pair of a Compare node makes
CompareHolds(op, left, right) ==
    CASE op = "Eq"    -> PyEq(left, right)
      [] op = "NotEq" -> ~PyEq(left, right)
      [] op = "Gt"    -> NumberOf(left) > NumberOf(right)
      [] op = "GtE"   -> NumberOf(left) >= NumberOf(right)
      [] op = "Lt"    -> NumberOf(left) < NumberOf(right)
      [] op = "LtE"   -> NumberOf(left) <= NumberOf(right)
      [] OTHER        -> TRUE

\* AST nodes: kind is the ast class, ops the operator classes, id the name of
\* a Name or of the function of a Call, value the value of a Constant, kids
\* the operand nodes in source order (values, operand, left and comparators,
\* args)
Constant(v) ==
    [kind |-> "Constant", ops |-> <<>>, id |-> "", value |-> v, kids |-> <<>>]
Name(id) ==
    [kind |-> "Name", ops |-> <<>>, id |-> id, value |-> PyNone, kids |-> <<>>]
Call(func, args) ==
    [kind |-> "Call", ops |-> <<>>, id |-> func, value |-> PyNone, kids |-> args]
BoolOp(op, values) ==
    [kind |-> "BoolOp", ops |-> <<op>>, id |-> "", value |-> PyNone, kids |-> values]
UnaryOp(op, operand) ==
    [kind |-> "UnaryOp", ops |-> <<op>>, id |-> "", value |-> PyNone,
     kids |-> <<operand>>]
Compare(left, ops, comparators) ==
    [kind |-> "Compare", ops |-> ops, id |-> "", value |-> PyNone,
     kids |-> <<left>> \o comparators]
BinOp(op, left, right) ==
    [kind |-> "BinOp", ops |-> <<op>>, id |-> "", value |-> PyNone,
     kids |-> <<left, right>>]

allowed_calls ==
    {"pressed", "toggle_on", "logical_on", "led_on", "var", "analog", "value",
     "time_ms", "is_set", "is_none", "num"}

\* MacroEngine._validate_expr_tree
RECURSIVE ValidateExprTree(_)
ValidateExprTree(node) ==
    CASE node.kind = "BoolOp" ->
            \A i \in DOMAIN node.kids : ValidateExprTree(node.kids[i])
      [] node.kind = "UnaryOp" /\ node.ops = <<"Not">> ->
            ValidateExprTree(node.kids[1])
      [] node.kind = "Compare" ->
            \A i \in DOMAIN node.kids : ValidateExprTree(node.kids[i])
      [] node.kind = "Name" -> TRUE
      [] node.kind = "Constant" -> TRUE
      [] node.kind = "Call" ->
            IF node.id \notin allowed_calls THEN FALSE
            ELSE \A i \in DOMAIN node.kids : ValidateExprTree(node.kids[i])
      [] OTHER -> FALSE

\* dict.get(key) on a function, None when the key is absent
GetOrNone(f, key) == IF key \in DOMAIN f THEN f[key] ELSE PyNone

\* the result of evaluating a node: its value, the function calls made on the
\* way in the order they were made, and whether an exception was raised
Returned(v, calls) == [val |-> v, calls |-> calls, raised |-> FALSE]
Raised(calls) == [val |-> PyNone, calls |-> calls, raised |-> TRUE]

\* _eval_node, Call branch: the function func applied to the evaluated args
\* in the engine state E
CallValue(func, args, E) ==
    IF func \in {"pressed", "toggle_on"} /\ args # <<>> THEN
        LET name == args[1]
            idx  == IF name.tag = "str" /\ name.s \in DOMAIN button_name_to_index
                    THEN button_name_to_index[name.s] ELSE -1
        IN  PyBool(GetButtonState(E, idx))
    ELSE IF func = "led_on" /\ args # <<>> THEN
        LET name == args[1]
        IN  IF name.tag = "str" /\ name.s \in DOMAIN led_name_to_id
            THEN PyBool(E.led_state[led_name_to_id[name.s]] > 0)
            ELSE PyBool(FALSE)
    ELSE IF func = "var" /\ args # <<>> THEN
        GetOrNone(E.vars, args[1].s)
    ELSE IF func \in {"analog", "value"} /\ args # <<>> THEN
        GetOrNone(E.last_values, args[1].s)
    ELSE IF func = "is_set" /\ args # <<>> THEN
        PyBool(args[1].s \in DOMAIN E.vars /\ E.vars[args[1].s] # PyNone)
    ELSE IF func = "is_none" /\ args # <<>> THEN
        PyBool(GetOrNone(E.vars, args[1].s) = PyNone)
    ELSE PyBool(FALSE)

RECURSIVE EvalNode(_, _)
RECURSIVE EvalList(_, _)
RECURSIVE EvalUntil(_, _, _)
RECURSIVE CompareLoop(_, _, _, _, _)

\* [self._eval_node(v) for v in nodes]: every node, left to right; an
\* exception ends the evaluation
EvalList(nodes, E) ==
    IF nodes = <<>> THEN [vals |-> <<>>, calls |-> <<>>, raised |-> FALSE]
    ELSE LET h == EvalNode(Head(nodes), E)
         IN  IF h.raised
             THEN [vals |-> <<>>, calls |-> h.calls, raised |-> TRUE]
             ELSE LET t == EvalList(Tail(nodes), E)
                  IN  [vals |-> <<h.val>> \o t.vals,
                       calls |-> h.calls \o t.calls, raised |-> t.raised]

\* the operands evaluated left to right up to the first whose truth value is
\* stop
EvalUntil(nodes, E, stop) ==
    IF nodes = <<>> THEN [vals |-> <<>>, calls |-> <<>>, raised |-> FALSE]
    ELSE LET h == EvalNode(Head(nodes), E)
         IN  IF h.raised
             THEN [vals |-> <<>>, calls |-> h.calls, raised |-> TRUE]
             ELSE IF Truthy(h.val) = stop
             THEN [vals |-> <<h.val>>, calls |-> h.calls, raised |-> FALSE]
             ELSE LET t == EvalUntil(Tail(nodes), E, stop)
                  IN  [vals |-> <<h.val>> \o t.vals,
                       calls |-> h.calls \o t.calls, raised |-> t.raised]

EvalBoolOpShortCircuit(node, E) ==
    LET is_and == node.ops = <<"And">>
        r      == EvalUntil(node.kids, E, ~is_and)
    IN  IF r.raised THEN Raised(r.calls)
        ELSE IF is_and
        THEN Returned(PyBool(\A i \in DOMAIN r.vals : Truthy(r.vals[i])), r.calls)
        ELSE Returned(PyBool(\E i \in DOMAIN r.vals : Truthy(r.vals[i])), r.calls)

\* _eval_node, BoolOp branch: all the operand values first, then all() or
\* any() of them
EvalBoolOp(node, E) ==
    LET r == EvalList(node.kids, E)
    IN  IF r.raised THEN Raised(r.calls)
        ELSE IF node.ops = <<"And">>
        THEN Returned(PyBool(\A i \in DOMAIN r.vals : Truthy(r.vals[i])), r.calls)
        ELSE Returned(PyBool(\E i \in DOMAIN r.vals : Truthy(r.vals[i])), r.calls)

\* _eval_node, Compare branch: the loop over zip(ops, comparators) from
\* position i on, left being the value carried over
CompareLoop(left, node, i, E, calls) ==
    IF i > Len(node.ops) \/ i + 1 > Len(node.kids)
    THEN Returned(PyBool(TRUE), calls)
    ELSE LET r == EvalNode(node.kids[i + 1], E)
             c == calls \o r.calls
             op == node.ops[i]
         IN  IF r.raised THEN Raised(c)
             ELSE IF left = PyNone \/ r.val = PyNone
             THEN Returned(PyBool(FALSE), c)
             ELSE IF op \in {"Gt", "GtE", "Lt", "LtE"}
                     /\ OrderingRaises(left, r.val)
             THEN Raised(c)
             ELSE IF ~CompareHolds(op, left, r.val)
             THEN Returned(PyBool(FALSE), c)
             ELSE CompareLoop(r.val, node, i + 1, E, c)

\* MacroEngine._eval_node in the engine state E
EvalNode(node, E) ==
    IF node.kind = "BoolOp" THEN EvalBoolOp(node, E)
    ELSE IF node.kind = "UnaryOp" /\ node.ops = <<"Not">> THEN
        LET r == EvalNode(node.kids[1], E)
        IN  IF r.raised THEN r ELSE Returned(PyBool(~Truthy(r.val)), r.calls)
    ELSE IF node.kind = "Compare" THEN
        LET l == EvalNode(node.kids[1], E)
        IN  IF l.raised THEN l ELSE CompareLoop(l.val, node, 1, E, l.calls)
    ELSE IF node.kind = "Name" THEN
        IF node.id = "gear" THEN Returned(GetOrNone(E.last_values, "gear"), <<>>)
        ELSE IF node.id = "tuner"
        THEN Returned(GetOrNone(E.last_values, "tuner"), <<>>)
        ELSE IF node.id = "layer" THEN Returned(PyInt(E.layer), <<>>)
        ELSE Returned(GetOrNone(E.vars, node.id), <<>>)
    ELSE IF node.kind = "Constant" THEN Returned(node.value, <<>>)
    ELSE IF node.kind = "Call" THEN
        LET a == EvalList(node.kids, E)
        IN  IF a.raised THEN Raised(a.calls)
            ELSE Returned(CallValue(node.id, a.vals, E),
                          Append(a.calls, <<node.id, a.vals>>))
    ELSE Returned(PyBool(FALSE), <<>>)

\* MacroEngine._eval_expr: expr is [syntax_ok, body], what ast.parse makes of
\* the expression text
EvalExpr(expr, E) ==
    IF ~expr.syntax_ok THEN Returned(PyBool(FALSE), <<>>)
    ELSE IF ~ValidateExprTree(expr.body) THEN Returned(PyBool(FALSE), <<>>)
    ELSE EvalNode(expr.body, E)

\* the engine state an expression is evaluated in
EngineEnv ==
    [raw_control_data |-> raw_control_data, led_state |-> led_state,
     layer |-> layer, vars |-> macro_vars, last_values |-> last_values]

\* one _eval_expr call on the expression handed in
EvalExprCall ==
    /\ ~eval_done
    /\ eval_out' = EvalExpr(eval_input, EngineEnv)
    /\ eval_done' = TRUE
    /\ UNCHANGED <<eval_input, layer, macro_vars, last_values>>
    /\ UNCHANGED <<zvars, zhist, fvars, fhist>>
    /\ UNCHANGED not_engine

\* bounds of the evaluator model
MaxOperands == 3      \* operands of one and/or

Pressed(name) == Call("pressed", <<Constant(PyStr(name))>>)

\* the operands: two controls that exist and a name that does not
OperandArgs == {Pressed("Comm1"), Pressed("Comm2"), Call("toggle_on", <<Constant(PyStr("Nope"))>>)}

RECURSIVE SeqsOfLen(_, _)
SeqsOfLen(S, n) ==
    IF n = 0 THEN {<<>>}
    ELSE {Append(s, x) : s \in SeqsOfLen(S, n - 1), x \in S}

OperandLists == UNION {SeqsOfLen(OperandArgs, n) : n \in 2 .. MaxOperands}

BoolOpArgs == {BoolOp(op, values) : op \in {"And", "Or"}, values \in OperandLists}

\* the expressions evaluated: and/or over the operands, and/or nested in
\* and/or and under not, comparisons (of numbers, and "a" < 1), a call outside
\* the allow-list, an unsupported node kind and a text that does not parse
ExprArgs ==
    {[syntax_ok |-> TRUE, body |-> b] : b \in BoolOpArgs}
    \cup {[syntax_ok |-> TRUE,
           body |-> BoolOp(op, <<BoolOp("And", <<Pressed("Comm1"), Pressed("Comm2")>>),
                                 UnaryOp("Not", Pressed("Comm1"))>>)] :
            op \in {"And", "Or"}}
    \cup {[syntax_ok |-> TRUE,
           body |-> Compare(Name("layer"), <<"Eq">>, <<Constant(PyInt(0))>>)],
          [syntax_ok |-> TRUE,
           body |-> Compare(Name("layer"), <<"Lt">>, <<Constant(PyInt(1))>>)],
          [syntax_ok |-> TRUE,
           body |-> Compare(Constant(PyStr("a")), <<"Lt">>, <<Constant(PyInt(1))>>)],
          [syntax_ok |-> TRUE,
           body |-> Call("open", <<Constant(PyStr("Comm1"))>>)],
          [syntax_ok |-> TRUE,
           body |-> BinOp("Add", Constant(PyInt(1)), Constant(PyInt(2)))],
          [syntax_ok |-> FALSE, body |-> Constant(PyNone)]}

\* the bits set in the report: Comm1, Comm2 and the bit before button 0
ReportBitArgs == SUBSET {28, 29, -1}

\* MacroEngine.__init__ and SBCDriver.__init__: no expression evaluated yet
EvalIdle ==
    /\ eval_input = [syntax_ok |-> FALSE, body |-> Constant(PyNone)]
    /\ eval_out = Returned(PyNone, <<>>)
    /\ eval_done = TRUE
    /\ layer = 0
    /\ macro_vars = <<>>
    /\ last_values = <<>>

\* an expression about to be evaluated
EvalInit ==
    /\ eval_input \in ExprArgs
    /\ eval_out = Returned(PyNone, <<>>)
    /\ eval_done = FALSE
    /\ layer = 0
    /\ macro_vars = <<>>
    /\ last_values = <<>>

\* the driver after one report has been read
DriverAfterRead ==
    /\ raw_control_data \in {[none |-> FALSE, down |-> d] : d \in ReportBitArgs}
    /\ prev_control_data = [none |-> TRUE, down |-> {}]
    /\ led_modes = <<>>
    /\ flash_on = FALSE
    /\ logical_states = [name \in DOMAIN button_name_to_index |-> FALSE]
    /\ led_writes = <<>>
    /\ last_call = "init"
    /\ toggle_hist = [b \in PressedArgs |-> <<>>]

EvalNext == EvalExprCall

-----------------------------------------------------------------------------
(* Zone dispatch: MacroEngine.handle_analogs and handle_gears *)

\* An optional number is <<>> (None, or the key is absent) or <<n>>; an
\* optional string is "None" or the string.  A zone is
\* [min, max, values, value, action, behavior], values being <<>> or <<list>>.
AnalogZone(min, max, action, behavior) ==
    [min |-> min, max |-> max, values |-> <<>>, value |-> <<>>,
     action |-> action, behavior |-> behavior]
GearZone(values, value, action, behavior) ==
    [min |-> <<>>, max |-> <<>>, values |-> values, value |-> value,
     action |-> action, behavior |-> behavior]

NoAction == [action |-> "None", behavior |-> "hold"]

\* zone.get("action"), zone.get("behavior", "hold")
ZoneAction(zone) ==
    [action |-> zone.action,
     behavior |-> IF zone.behavior = "None" THEN "hold" ELSE zone.behavior]

\* whether element x occurs in list s
InList(x, s) == \E i \in DOMAIN s : s[i] = x

\* the zone loop of handle_analogs taken from the end of the list
RECURSIVE AnalogZoneLoopLast(_, _)
AnalogZoneLoopLast(zones, value) ==
    IF zones = <<>> THEN NoAction
    ELSE LET zone == zones[Len(zones)]
             rest == SubSeq(zones, 1, Len(zones) - 1)
         IN  IF zone.min = <<>> \/ zone.max = <<>>
             THEN AnalogZoneLoopLast(rest, value)
             ELSE IF zone.min[1] <= value /\ value <= zone.max[1]
             THEN ZoneAction(zone)
             ELSE AnalogZoneLoopLast(rest, value)

\* handle_analogs: the loop over the zones of an axis, left at the first zone
\* that contains the value
RECURSIVE AnalogZoneLoop(_, _)
AnalogZoneLoop(zones, value) ==
    IF zones = <<>> THEN NoAction
    ELSE LET zone == Head(zones)
         IN  IF zone.min = <<>> \/ zone.max = <<>>
             THEN AnalogZoneLoop(Tail(zones), value)
             ELSE IF zone.min[1] <= value /\ value <= zone.max[1]
             THEN ZoneAction(zone)
             ELSE AnalogZoneLoop(Tail(zones), value)

\* handle_gears: the loop over gear_zones, left at the first zone that lists
\* the gear value
RECURSIVE GearZoneLoop(_, _)
GearZoneLoop(zones, gear_value) ==
    IF zones = <<>> THEN NoAction
    ELSE LET zone == Head(zones)
         IN  IF zone.values # <<>>
             THEN IF InList(gear_value, zone.values[1])
                  THEN ZoneAction(zone)
                  ELSE GearZoneLoop(Tail(zones), gear_value)
             ELSE IF zone.value # <<>> /\ gear_value = zone.value[1]
             THEN ZoneAction(zone)
             ELSE GearZoneLoop(Tail(zones), gear_value)

\* a key macro {"keys": [...]}, a step script [step, ...]; none: no macro
\* (None)
KeyMacro(keys) ==
    [none |-> FALSE, script |-> FALSE, keys |-> keys, steps |-> <<>>]
ScriptMacro(steps) ==
    [none |-> FALSE, script |-> TRUE, keys |-> <<>>, steps |-> steps]
NoMacro == [none |-> TRUE, script |-> FALSE, keys |-> <<>>, steps |-> <<>>]

\* the action names that start with "KEY_"
KeyPrefixed == {"KEY_A", "KEY_B", "KEY_X"}

\* MacroEngine._resolve_macro
ResolveMacro(action_name) ==
    IF action_name \in DOMAIN macros THEN macros[action_name]
    ELSE IF action_name \in KeyPrefixed THEN KeyMacro(<<action_name>>)
    ELSE NoMacro

\* if macro: a macro that is not None, and not an empty list of steps (a
\* macro dict always holds "keys")
MacroTruthy(macro) == ~macro.none /\ (macro.script => macro.steps # <<>>)

\* M carries active_keys and the output of the call so far:
\* MacroEngine._emit (log output) and _publish_event
EmitKey(M, key_name, pressed) ==
    [M EXCEPT !.out = Append(@, <<"macro_key", key_name,
                                  IF pressed THEN "down" ELSE "up">>)]

PublishZoneEvent(M, type, name, value, Z, state) ==
    [M EXCEPT !.out = Append(@, <<type, name, value, Z.action, Z.behavior, state>>)]

\* MacroEngine._press_keys
RECURSIVE PressKeys(_, _)
PressKeys(M, keys) ==
    IF keys = <<>> THEN M
    ELSE LET key == Head(keys)
             N == IF key \notin M.active_keys
                  THEN [EmitKey(M, key, TRUE) EXCEPT
                            !.active_keys = @ \cup {key}]
                  ELSE M
         IN  PressKeys(N, Tail(keys))

\* MacroEngine._release_keys
RECURSIVE ReleaseKeys(_, _)
ReleaseKeys(M, keys) ==
    IF keys = <<>> THEN M
    ELSE LET key == Head(keys)
             N == IF key \in M.active_keys
                  THEN [EmitKey(M, key, FALSE) EXCEPT
                            !.active_keys = @ \ {key}]
                  ELSE M
         IN  ReleaseKeys(N, Tail(keys))

\* macro.get("keys", []) on a macro that is a list of steps raises
\* AttributeError
RaiseIn(M) == [M EXCEPT !.raised = TRUE]

\* MacroEngine._run_tap (the two sleeps change no state)
RunTap(M, macro) ==
    IF macro.script THEN RaiseIn(M)
    ELSE IF macro.keys = <<>> THEN M
    ELSE ReleaseKeys(PressKeys(M, macro.keys), macro.keys)

\* MacroEngine._run_hold_press
RunHoldPress(M, macro) ==
    IF macro.script THEN RaiseIn(M)
    ELSE IF macro.keys # <<>> THEN PressKeys(M, macro.keys) ELSE M

\* MacroEngine._run_hold_release
RunHoldRelease(M, macro) ==
    IF macro.script THEN RaiseIn(M)
    ELSE IF macro.keys # <<>> THEN ReleaseKeys(M, macro.keys) ELSE M

\* if name: a string that is neither None nor empty
ActionTruthy(action) == action # "None" /\ action # ""

\* handle_analogs: what follows a change of the winning action of an axis:
\* leave the previous action, enter the current one; an exception ends it
ZoneChange(M, type, name, value, prev, current) ==
    LET M1 == IF ActionTruthy(prev.action)
              THEN LET prev_macro == ResolveMacro(prev.action)
                       R == IF MacroTruthy(prev_macro) /\ prev.behavior = "hold"
                            THEN RunHoldRelease(M, prev_macro) ELSE M
                   IN  IF R.raised THEN R
                       ELSE PublishZoneEvent(R, type, name, value, prev, "exit")
              ELSE M
    IN  IF M1.raised THEN M1
        ELSE IF ActionTruthy(current.action)
        THEN LET macro == ResolveMacro(current.action)
                 R == IF MacroTruthy(macro)
                      THEN IF current.behavior = "tap"
                           THEN RunTap(M1, macro)
                           ELSE RunHoldPress(M1, macro)
                      ELSE M1
             IN  IF R.raised THEN R
                 ELSE PublishZoneEvent(R, type, name, value, current, "enter")
        ELSE M1

\* handle_analogs: the body of the loop for one axis; M also carries
\* axis_active
AnalogAxis(M, axis_name, zones, state) ==
    IF axis_name \notin DOMAIN state THEN M
    ELSE LET value   == state[axis_name]
             current == AnalogZoneLoop(zones, value)
             prev    == IF axis_name \in DOMAIN M.axis_active
                        THEN M.axis_active[axis_name] ELSE NoAction
         IN  IF current.action = prev.action THEN M
             ELSE LET N == ZoneChange(M, "analog_zone", axis_name, value,
                                      prev, current)
                  IN  IF N.raised THEN N
                      ELSE
                      [N EXCEPT !.axis_active =
                          [a \in DOMAIN @ \cup {axis_name} |->
                              IF a = axis_name THEN current ELSE @[a]]]

\* handle_analogs: the loop over the items of analog_zones, a list of
\* [axis, zones] in the order of the dict
RECURSIVE AnalogAxes(_, _, _)
AnalogAxes(M, axes, state) ==
    IF axes = <<>> \/ M.raised THEN M
    ELSE AnalogAxes(AnalogAxis(M, Head(axes).axis, Head(axes).zones, state),
                    Tail(axes), state)

\* the state a handler of the engine works on: the engine's own fields, the
\* driver's fields it reads and writes (led: raw_led_data and led_state), the
\* input matrix (q, pub), the records handed to it so far (log), the output
\* of the call so far and whether an exception has ended it
EngineValue ==
    [active_keys |-> active_keys, axis_active |-> axis_active,
     layer |-> layer, vars |-> macro_vars,
     raw_control_data |-> raw_control_data,
     prev_control_data |-> prev_control_data,
     last_values |-> last_values, led_modes |-> led_modes,
     led |-> [raw |-> raw_led_data, st |-> led_state],
     q |-> events, pub |-> published,
     led_effects |-> led_effects, monotonic |-> monotonic,
     log |-> <<>>, out |-> <<>>, raised |-> FALSE]

\* MacroEngine.handle_analogs(state)
HandleAnalogs(state) ==
    /\ ~engine_raised      \* an exception has ended the polling loop
    /\ \E R \in {AnalogAxes(EngineValue, analog_zones, state)} :
          /\ active_keys' = R.active_keys
          /\ axis_active' = R.axis_active
          /\ engine_out' = R.out
          /\ engine_raised' = R.raised
    /\ engine_call' = "analogs"
    /\ analog_in' = <<state>>
    /\ UNCHANGED <<macros, analog_zones, gear_zones, gear_active, gear_in,
                   control_macros>>
    /\ UNCHANGED <<evars, fvars, fhist>>
    /\ UNCHANGED not_engine

\* MacroEngine.handle_gears(state): the statements that follow the return
\* inside `if current_action == prev_action` are never run, so a change of
\* the winning action only replaces gear_active
HandleGears(state) ==
    /\ ~engine_raised      \* an exception has ended the polling loop
    /\ IF "gear" \notin DOMAIN state THEN UNCHANGED gear_active
       ELSE LET current == GearZoneLoop(gear_zones, state["gear"])
                prev    == IF gear_active = <<>> THEN NoAction
                           ELSE gear_active[1]
            IN  IF current.action = prev.action THEN UNCHANGED gear_active
                ELSE gear_active' = <<current>>
    /\ engine_out' = <<>>
    /\ engine_raised' = FALSE
    /\ engine_call' = "gears"
    /\ gear_in' = <<state>>
    /\ UNCHANGED <<macros, analog_zones, gear_zones, active_keys, axis_active,
                   analog_in, control_macros>>
    /\ UNCHANGED <<evars, fvars, fhist>>
    /\ UNCHANGED not_engine

-----------------------------------------------------------------------------
(* Step interpreter: MacroEngine._run_steps and run_macro *)

\* A step is a dict; op is the first of the keys _run_steps tests that the
\* dict holds.  name: the key, macro, variable, LED or control named; num: the
\* layer or intensity; flag: pressed; value: the value of a set_var;
\* expr: the condition of an if, as ast.parse sees it.  shape: what the step
\* is in the config ("dict", or "int", "str" for a step that is no object);
\* payload: what the value under the key is ("dict", or "str")
\* a key of a payload: <<>> when the payload does not hold it, else <<value>>
PayloadGet(entry, default) == IF entry = <<>> THEN default ELSE entry[1]

\* the keys of a led_blink or led_breathe payload besides "led"
EffectPayload(duration_ms, period_ms, on_ms, intensity, min, max) ==
    [duration_ms |-> duration_ms, period_ms |-> period_ms, on_ms |-> on_ms,
     intensity |-> intensity, min |-> min, max |-> max]

NoEffectPayload == EffectPayload(<<>>, <<>>, <<>>, <<>>, <<>>, <<>>)

StepOf(op, name, num, flag, value, expr, then, otherwise) ==
    [op |-> op, name |-> name, num |-> num, flag |-> flag, value |-> value,
     expr |-> expr, then |-> then, otherwise |-> otherwise,
     shape |-> "dict", payload |-> "dict", effect |-> NoEffectPayload]

NoExpr == [syntax_ok |-> FALSE, body |-> Constant(PyNone)]

StepIf(expr, then, otherwise) ==
    StepOf("if", "", 0, FALSE, PyNone, expr, then, otherwise)
StepSleepMs(ms) == StepOf("sleep_ms", "", ms, FALSE, PyNone, NoExpr, <<>>, <<>>)
StepSetLayer(n) == StepOf("set_layer", "", n, FALSE, PyNone, NoExpr, <<>>, <<>>)
StepCycleLayer == StepOf("cycle_layer", "", 0, FALSE, PyNone, NoExpr, <<>>, <<>>)
StepSetVar(name, value) ==
    StepOf("set_var", name, 0, FALSE, value, NoExpr, <<>>, <<>>)
StepRunMacro(name) ==
    StepOf("run_macro", name, 0, FALSE, PyNone, NoExpr, <<>>, <<>>)
StepPress(key) == StepOf("press", key, 0, FALSE, PyNone, NoExpr, <<>>, <<>>)
StepDown(key) == StepOf("down", key, 0, FALSE, PyNone, NoExpr, <<>>, <<>>)
StepUp(key) == StepOf("up", key, 0, FALSE, PyNone, NoExpr, <<>>, <<>>)
StepLedSet(led, intensity) ==
    StepOf("led_set", led, intensity, FALSE, PyNone, NoExpr, <<>>, <<>>)
StepLedBlink(led, effect) ==
    [StepOf("led_blink", led, 0, FALSE, PyNone, NoExpr, <<>>, <<>>)
        EXCEPT !.effect = effect]
StepLedBreathe(led, effect) ==
    [StepOf("led_breathe", led, 0, FALSE, PyNone, NoExpr, <<>>, <<>>)
        EXCEPT !.effect = effect]
StepQueueButton(control, pressed) ==
    StepOf("queue_button", control, 0, pressed, PyNone, NoExpr, <<>>, <<>>)
StepQueueMacro(name) ==
    StepOf("queue_macro", name, 0, FALSE, PyNone, NoExpr, <<>>, <<>>)

\* steps of a config that validate_macros reports: a step that is a number or
\* a string, a step with a key _run_steps does not know, a payload that is a
\* string where an object is expected
StepNotObject(shape) ==
    [StepOf("none", "", 0, FALSE, PyNone, NoExpr, <<>>, <<>>) EXCEPT !.shape = shape]
StepUnknownKey == StepOf("frobnicate", "", 0, FALSE, PyNone, NoExpr, <<>>, <<>>)
StepStrPayload(step) == [step EXCEPT !.payload = "str"]

\* bound of the interpreter model
MaxDepth == 3     \* run_macro calls nested before Python's recursion limit

\* MacroEngine._max_layers
MaxLayers ==
    LET lens == {Len(control_macros[i].mapping.actions) :
                    i \in {j \in DOMAIN control_macros :
                              control_macros[j].mapping.shape = "list"}}
    IN  IF lens = {} THEN 1
        ELSE Max(1, CHOOSE n \in lens : \A k \in lens : k <= n)

\* the engine state an expression of a step is evaluated in
StepEnv(M) ==
    [raw_control_data |-> M.raw_control_data, led_state |-> M.led.st,
     layer |-> M.layer, vars |-> M.vars, last_values |-> M.last_values]

\* InputMatrix.queue_button and queue_macro called by a step
StepQueue(M, event_name, event) ==
    IF event_name = "" THEN M
    ELSE [M EXCEPT !.q = PushTo(@, maxlen, event, now),
                   !.pub = PublishOutcome(event_sink),
                   !.log = Append(@, event)]

\* the entry a led_blink step stores; duration_ms stays <<>> (None) when the
\* payload has none.  The keys a blink effect does not have read as 0
BlinkEffect(payload, start) ==
    [type |-> "blink", start |-> start, duration_ms |-> payload.duration_ms,
     period_ms |-> PayloadGet(payload.period_ms, 500),
     on_ms |-> PayloadGet(payload.on_ms, 250),
     intensity |-> PayloadGet(payload.intensity, 15),
     min |-> 0, max |-> 0]

\* the entry a led_breathe step stores
BreatheEffect(payload, start) ==
    [type |-> "breathe", start |-> start, duration_ms |-> payload.duration_ms,
     period_ms |-> PayloadGet(payload.period_ms, 2000),
     on_ms |-> 0, intensity |-> 0,
     min |-> PayloadGet(payload.min, 0),
     max |-> PayloadGet(payload.max, 15)]

\* an assignment that adds an entry whether or not the name has one
DictSetAppend(effects, name, effect) ==
    Append(effects, [name |-> name, effect |-> effect])

\* self.led_effects[name] = effect: a dict keeps the position of a key it
\* already holds and puts a new key last
DictSet(effects, name, effect) ==
    IF \E i \in DOMAIN effects : effects[i].name = name
    THEN [i \in DOMAIN effects |->
             IF effects[i].name = name
             THEN [name |-> name, effect |-> effect] ELSE effects[i]]
    ELSE Append(effects, [name |-> name, effect |-> effect])

RECURSIVE RunSteps(_, _, _, _)
RECURSIVE RunStep(_, _, _, _)
RECURSIVE RunMacroIn(_, _, _)

\* MacroEngine.run_macro; depth: the run_macro calls this one is nested in.
\* Python ends a recursion that goes too deep with RecursionError
RunMacroIn(M, name, depth) ==
    IF name = "" THEN M
    ELSE LET macro == ResolveMacro(name)
         IN  IF macro.none THEN M
             ELSE IF macro.script
             THEN IF depth >= MaxDepth THEN RaiseIn(M)
                  ELSE RunSteps(M, macro.steps, "tap", depth + 1)
             ELSE RunTap(M, macro)

\* _run_steps: the body of the loop for one step
RunStep(M, step, context, depth) ==
    CASE step.shape = "int" -> RaiseIn(M)     \* "if" in 5: TypeError
      [] step.shape = "str" -> M              \* no key is a substring of it
      [] step.op = "if" ->
            LET r == EvalExpr(step.expr, StepEnv(M))
            IN  IF r.raised THEN RaiseIn(M)
                ELSE IF Truthy(r.val)
                THEN RunSteps(M, step.then, context, depth)
                ELSE RunSteps(M, step.otherwise, context, depth)
      [] step.op = "sleep_ms" -> M
      [] step.op = "set_layer" -> [M EXCEPT !.layer = step.num]
      [] step.op = "cycle_layer" ->
            [M EXCEPT !.layer = (@ + 1) % Max(1, MaxLayers)]
      [] step.op = "set_var" /\ step.payload # "dict" -> M
      [] step.op = "set_var" ->
            [M EXCEPT !.vars = [n \in DOMAIN @ \cup {step.name} |->
                                   IF n = step.name THEN step.value ELSE @[n]]]
      [] step.op = "run_macro" -> RunMacroIn(M, step.name, depth)
      [] /\ step.op \in {"press", "led_set", "led_blink", "led_breathe"}
         /\ step.payload # "dict" ->
            RaiseIn(M)                        \* payload.get: AttributeError
      [] step.op = "press" ->
            IF step.name # ""
            THEN EmitKey(EmitKey(M, step.name, TRUE), step.name, FALSE)
            ELSE M
      [] step.op = "down" -> EmitKey(M, step.name, TRUE)
      [] step.op = "up" -> EmitKey(M, step.name, FALSE)
      [] step.op = "led_set" ->
            IF step.name \in DOMAIN led_name_to_id
            THEN [M EXCEPT !.led = SetLedIn(@, led_name_to_id[step.name], step.num)]
            ELSE M
      [] step.op = "led_blink" ->
            IF step.name \in DOMAIN led_name_to_id
            THEN [M EXCEPT !.led_effects =
                     DictSet(@, step.name, BlinkEffect(step.effect, M.monotonic))]
            ELSE M
      [] step.op = "led_breathe" ->
            IF step.name \in DOMAIN led_name_to_id
            THEN [M EXCEPT !.led_effects =
                     DictSet(@, step.name, BreatheEffect(step.effect, M.monotonic))]
            ELSE M
      [] step.op = "queue_button" /\ step.payload # "dict" -> M
      [] step.op = "queue_button" ->
            StepQueue(M, step.name,
                      ButtonRecord(step.name, step.flag, "macro", context))
      [] step.op = "queue_macro" ->
            StepQueue(M, step.name, MacroRecord(step.name, "macro", context))
      [] OTHER -> M

\* MacroEngine._run_steps: the steps in order; an exception ends the run
RunSteps(M, steps, context, depth) ==
    IF steps = <<>> \/ M.raised THEN M
    ELSE LET N == RunStep(M, Head(steps), context, depth)
         IN  IF N.raised = N.raised
             THEN RunSteps(N, Tail(steps), context, depth) ELSE M

RECURSIVE ValidSteps(_)

\* MacroEngine._validate_steps: TRUE when it reports no error for the steps
ValidSteps(steps) ==
    \A i \in DOMAIN steps :
       LET step == steps[i]
       IN  /\ step.shape = "dict"
           /\ step.op \in {"if", "sleep_ms", "set_layer", "cycle_layer",
                           "set_var", "run_macro", "press", "down", "up",
                           "led_set", "led_blink", "led_breathe",
                           "queue_button", "queue_macro"}
           /\ step.op = "if" =>
                  /\ step.expr.syntax_ok
                  /\ ValidSteps(step.then)
                  /\ ValidSteps(step.otherwise)
           /\ step.op \in {"press", "led_set", "led_blink", "led_breathe",
                           "queue_button"} =>
                  step.payload = "dict"

\* MacroEngine.validate_macros: TRUE when it reports the macro of that name
ReportedInvalid(name) ==
    /\ name \in DOMAIN macros
    /\ macros[name].script
    /\ ~ValidSteps(macros[name].steps)

-----------------------------------------------------------------------------
(* Control dispatch: MacroEngine.handle_buttons and handle_button_event *)

\* the shapes of a control_macros value: a string, a dict {action, behavior}
\* ("None": the key is absent), a list of action names, anything else
MapStr(action) ==
    [shape |-> "str", action |-> action, behavior |-> "None", actions |-> <<>>]
MapDict(action, behavior) ==
    [shape |-> "dict", action |-> action, behavior |-> behavior, actions |-> <<>>]
MapList(actions) ==
    [shape |-> "list", action |-> "None", behavior |-> "None", actions |-> actions]
MapOther ==
    [shape |-> "other", action |-> "None", behavior |-> "None", actions |-> <<>>]

\* self.control_macros.get(control_name)
ControlMapping(control_name) ==
    LET idx == {i \in DOMAIN control_macros :
                   control_macros[i].control = control_name}
    IN  IF idx = {} THEN MapOther ELSE control_macros[CHOOSE i \in idx : TRUE].mapping

\* a lookup that takes the layer itself as the index of the list
ResolveControlActionNoMod(M, control_name) ==
    LET mapping == ControlMapping(control_name)
    IN  CASE mapping.shape = "str" ->
                [action |-> mapping.action, behavior |-> "from_led"]
          [] mapping.shape = "dict" ->
                [action |-> mapping.action,
                 behavior |-> IF mapping.behavior = "None" THEN "from_led"
                              ELSE mapping.behavior]
          [] mapping.shape = "list" ->
                [action |-> IF M.layer + 1 \in DOMAIN mapping.actions
                            THEN mapping.actions[M.layer + 1]
                            ELSE "None",
                 behavior |-> "from_led"]
          [] OTHER -> [action |-> "None", behavior |-> "None"]

\* MacroEngine._resolve_control_action: (action_name, behavior)
ResolveControlAction(M, control_name) ==
    LET mapping == ControlMapping(control_name)
    IN  CASE mapping.shape = "str" ->
                [action |-> mapping.action, behavior |-> "from_led"]
          [] mapping.shape = "dict" ->
                [action |-> mapping.action,
                 behavior |-> IF mapping.behavior = "None" THEN "from_led"
                              ELSE mapping.behavior]
          [] mapping.shape = "list" ->
                [action |-> IF mapping.actions # <<>>
                            THEN mapping.actions[(M.layer % Len(mapping.actions)) + 1]
                            ELSE "None",
                 behavior |-> "from_led"]
          [] OTHER -> [action |-> "None", behavior |-> "None"]

\* MacroEngine._behavior_from_led
BehaviorFromLed(M, led_name, default_led_mode) ==
    LET led_mode_raw == IF led_name \in DOMAIN M.led_modes
                        THEN M.led_modes[led_name] ELSE default_led_mode
    IN  IF ParseLedMode(led_mode_raw).mode \in {<<"flash">>, <<"momentary">>}
        THEN "hold" ELSE "tap"

\* a dispatch that acts on the level of the control, whether it changed or not
DispatchActionLevel(M, macro, behavior, changed, pressed) ==
    IF macro.none THEN M
    ELSE IF macro.script THEN
        IF behavior = "tap"
        THEN IF pressed THEN RunSteps(M, macro.steps, "tap", 0) ELSE M
        ELSE IF behavior = "hold"
        THEN IF pressed THEN RunSteps(M, macro.steps, "down", 0)
             ELSE RunSteps(M, macro.steps, "up", 0)
        ELSE M
    ELSE IF behavior = "tap"
    THEN IF pressed THEN RunTap(M, macro) ELSE M
    ELSE IF behavior = "hold"
    THEN IF pressed THEN RunHoldPress(M, macro) ELSE RunHoldRelease(M, macro)
    ELSE M

\* MacroEngine._dispatch_action
DispatchAction(M, macro, behavior, changed, pressed) ==
    IF macro.none \/ ~changed THEN M
    ELSE IF macro.script THEN
        IF behavior = "tap"
        THEN IF pressed THEN RunSteps(M, macro.steps, "tap", 0) ELSE M
        ELSE IF behavior = "hold"
        THEN IF pressed THEN RunSteps(M, macro.steps, "down", 0)
             ELSE RunSteps(M, macro.steps, "up", 0)
        ELSE M
    ELSE IF behavior = "tap"
    THEN IF pressed THEN RunTap(M, macro) ELSE M
    ELSE IF behavior = "hold"
    THEN IF pressed THEN RunHoldPress(M, macro) ELSE RunHoldRelease(M, macro)
    ELSE M

\* MacroEngine.handle_button_event
HandleButtonEvent(M, control_name, pressed, changed, default_led_mode) ==
    LET r == ResolveControlAction(M, control_name)
    IN  IF ~ActionTruthy(r.action) \/ r.behavior = "None" THEN M
        ELSE
        LET index    == IF control_name \in DOMAIN button_name_to_index
                        THEN button_name_to_index[control_name] ELSE -1
            led_name == IF index \in DOMAIN button_to_led_name
                        THEN button_to_led_name[index] ELSE control_name
            behavior == IF r.behavior = "from_led"
                        THEN BehaviorFromLed(M, led_name, default_led_mode)
                        ELSE r.behavior
            macro    == ResolveMacro(r.action)
        IN  IF macro.none THEN M
            ELSE DispatchAction(M, macro, behavior, changed, pressed)

\* MacroEngine.handle_buttons: the loop over control_macros from position i on
RECURSIVE HandleButtonsFrom(_, _, _)
HandleButtonsFrom(M, i, default_led_mode) ==
    IF i > Len(control_macros) \/ M.raised THEN M
    ELSE LET control_name == control_macros[i].control
             N == IF control_name \notin DOMAIN button_name_to_index THEN M
                  ELSE LET index == button_name_to_index[control_name]
                       IN  HandleButtonEvent(M, control_name,
                                             GetButtonState(M, index),
                                             ButtonChanged(M, index),
                                             default_led_mode)
         IN  IF N.raised = N.raised
             THEN HandleButtonsFrom(N, i + 1, default_led_mode) ELSE M

\* self.layer_cycle_button, its default
layer_cycle_button == "LeftJoySightChange"

\* MacroEngine.handle_layer_cycle
HandleLayerCycle(M) ==
    IF layer_cycle_button \notin DOMAIN button_name_to_index THEN M
    ELSE IF PressEdge(M, button_name_to_index[layer_cycle_button])
    THEN [M EXCEPT !.layer = (@ + 1) % Max(1, MaxLayers)]
    ELSE M

\* what a handler of the engine leaves behind
EngineCommit(R, call) ==
    /\ active_keys' = R.active_keys
    /\ layer' = R.layer
    /\ macro_vars' = R.vars
    /\ raw_led_data' = R.led.raw
    /\ led_state' = R.led.st
    /\ events' = R.q
    /\ published' = R.pub
    /\ raw_control_data' = R.raw_control_data
    /\ prev_control_data' = R.prev_control_data
    /\ engine_out' = R.out
    /\ engine_raised' = R.raised
    /\ engine_call' = call
    /\ led_effects' = R.led_effects
    /\ UNCHANGED <<monotonic, fhist>>
    /\ UNCHANGED <<maxlen, event_sink, now, ret>>
    /\ UNCHANGED <<qhist, vvars, vhist, chist, lhist, avars, gvars>>
    /\ UNCHANGED <<led_modes, flash_on, logical_states>>
    /\ UNCHANGED <<last_values, eval_input, eval_out, eval_done>>
    /\ UNCHANGED <<macros, analog_zones, gear_zones, axis_active, gear_active,
                   control_macros, analog_in, gear_in>>

\* one cycle of the runtime loop as far as the controls go: parse_state on
\* the report read, handle_layer_cycle, handle_buttons.  An exception that
\* leaves a handler ends the process
DispatchFrame(down) ==
    /\ ~engine_raised
    /\ LET M0 == [EngineValue EXCEPT
                     !.prev_control_data = raw_control_data,
                     !.raw_control_data = [none |-> FALSE, down |-> down]]
       IN  \E R \in {HandleButtonsFrom(HandleLayerCycle(M0), 1, led_mode)} :
              EngineCommit(R, "frame")

\* MacroEngine.run_macro(name), as the runtime calls it for the powerup macro
\* and for a drained macro record
RunMacroCall(name) ==
    /\ ~engine_raised
    /\ \E R \in {RunMacroIn(EngineValue, name, 0)} : EngineCommit(R, "run_macro")

\* a replay that hands the panel's own changed flag to the dispatch
ReplayRecordPanelEdge(M, queued, default_led_mode) ==
    CASE queued.type = "button" ->
            HandleButtonEvent(M, queued.name, queued.pressed,
                              /\ queued.name \in DOMAIN button_name_to_index
                              /\ ButtonChanged(M, button_name_to_index[queued.name]),
                              default_led_mode)
      [] queued.type = "macro" -> RunMacroIn(M, queued.name, 0)
      [] OTHER -> M

\* the runtime loop's replay of one drained record; an event record is
\* telemetry and is not replayed
ReplayRecord(M, queued, default_led_mode) ==
    CASE queued.type = "button" ->
            HandleButtonEvent(M, queued.name, queued.pressed, TRUE,
                              default_led_mode)
      [] queued.type = "macro" -> RunMacroIn(M, queued.name, 0)
      [] OTHER -> M

\* the loop over the drained list; an exception ends it
RECURSIVE ReplayFrom(_, _, _)
ReplayFrom(M, drained, default_led_mode) ==
    IF drained = <<>> \/ M.raised THEN M
    ELSE LET N == ReplayRecord(M, Head(drained), default_led_mode)
         IN  IF N.raised = N.raised
             THEN ReplayFrom(N, Tail(drained), default_led_mode) ELSE M

\* input_matrix.drain() and the replay of what it returned; records the
\* replayed macros enqueue stay in the queue
DrainReplayIn(M, default_led_mode) ==
    ReplayFrom([M EXCEPT !.q = DrainRest(M.q)], DrainResult(M.q),
               default_led_mode)

\* the drain step of a cycle of the runtime loop; the list drain() returned
\* is a local of the loop
DrainReplay ==
    /\ ~engine_raised
    /\ ~raw_control_data.none      \* the loop has read a report
    /\ events # <<>>
    /\ \E R \in {DrainReplayIn(EngineValue, led_mode)} :
          EngineCommit(R, "replay")

\* the macros, analog_zones and gear_zones sections of the configs
MacrosConfig ==
    "A" :> KeyMacro(<<"KEY_A">>) @@ "B" :> KeyMacro(<<"KEY_B", "KEY_A">>)
    @@ "C" :> KeyMacro(<<"KEY_C">>)
    @@ "S" :> ScriptMacro(<<StepPress("KEY_S")>>)

ZoneConfigs ==
    { [analog_zones |->
          <<[axis |-> "aim_x",
             zones |-> <<AnalogZone(<<0>>, <<10>>, "A", "None"),
                         AnalogZone(<<5>>, <<20>>, "B", "tap")>>]>>,
       gear_zones |->
          <<GearZone(<<<<1, 2>>>>, <<>>, "A", "None"),
            GearZone(<<<<2, 3>>>>, <<>>, "B", "tap"),
            GearZone(<<>>, <<3>>, "KEY_X", "None")>>],
      [analog_zones |->
          <<[axis |-> "aim_x",
             zones |-> <<AnalogZone(<<0>>, <<>>, "C", "None"),
                         AnalogZone(<<5>>, <<20>>, "B", "None"),
                         AnalogZone(<<0>>, <<10>>, "A", "tap"),
                         AnalogZone(<<20>>, <<30>>, "KEY_X", "None")>>],
            [axis |-> "tuner",
             zones |-> <<AnalogZone(<<0>>, <<10>>, "nope", "None")>>]>>,
       gear_zones |->
          <<GearZone(<<>>, <<2>>, "B", "None"),
            GearZone(<<<<1, 2>>>>, <<>>, "A", "None"),
            GearZone(<<>>, <<>>, "KEY_X", "None")>>],
      [analog_zones |->
          <<[axis |-> "aim_x",
             zones |-> <<AnalogZone(<<0>>, <<10>>, "A", "None"),
                         AnalogZone(<<11>>, <<20>>, "S", "tap"),
                         AnalogZone(<<21>>, <<30>>, "B", "None")>>]>>,
       gear_zones |->
          <<GearZone(<<<<1>>>>, <<>>, "A", "None"),
            GearZone(<<<<2>>>>, <<>>, "B", "tap")>>] }

\* the decoded states handed to the handlers: a value per axis, or none
AxisValueArgs == {-1, 7, 15, 25}
GearValueArgs == {-1, 1, 2, 3}

AnalogStateArgs ==
    UNION {[D -> AxisValueArgs] : D \in SUBSET {"aim_x", "tuner"}}

GearStateArgs == UNION {[D -> GearValueArgs] : D \in SUBSET {"gear"}}

\* no cycle of the runtime loop has run
NoCycle == [fed |-> <<>>, queued |-> <<>>, drained |-> <<>>]

\* MacroEngine.__init__: no LED effect yet
EffectsIdle ==
    /\ led_effects = <<>>
    /\ monotonic = 0
    /\ tick_writes = <<>>
    /\ tick_removed = <<>>
    /\ cycle_hist = NoCycle

\* MacroEngine.__init__ with no zones configured
ZoneIdle ==
    /\ EffectsIdle
    /\ macros = <<>>
    /\ analog_zones = <<>>
    /\ gear_zones = <<>>
    /\ active_keys = {}
    /\ axis_active = <<>>
    /\ gear_active = <<>>
    /\ engine_out = <<>>
    /\ analog_in = <<>>
    /\ gear_in = <<>>
    /\ control_macros = <<>>
    /\ engine_raised = FALSE
    /\ engine_call = "init"

\* MacroEngine.__init__ on a config with zones
ZoneInit ==
    /\ EffectsIdle
    /\ macros = MacrosConfig
    /\ \E cfg \in ZoneConfigs :
          /\ analog_zones = cfg.analog_zones
          /\ gear_zones = cfg.gear_zones
    /\ active_keys = {}
    /\ axis_active = <<>>
    /\ gear_active = <<>>
    /\ engine_out = <<>>
    /\ analog_in = <<>>
    /\ gear_in = <<>>
    /\ control_macros = <<>>
    /\ engine_raised = FALSE
    /\ engine_call = "init"

HandleAnalogsStep == \E state \in AnalogStateArgs : HandleAnalogs(state)

HandleGearsStep == \E state \in GearStateArgs : HandleGears(state)

ZoneNext ==
    \/ HandleAnalogsStep
    \/ HandleGearsStep

\* the macros and control_macros sections of the configs.  Controls: Eject
\* (button 3, LED mode flash), Comm1..Comm3 (buttons 28..30, LED mode toggle),
\* and a control name the panel does not have
DispatchMacros ==
    "A" :> KeyMacro(<<"KEY_A">>)
    @@ "B" :> KeyMacro(<<"KEY_B">>)
    @@ "T" :> ScriptMacro(<<StepPress("KEY_T")>>)
    @@ "P" :> ScriptMacro(<<StepIf([syntax_ok |-> TRUE, body |-> Pressed("Comm3")],
                                   <<StepPress("KEY_T")>>,
                                   <<StepPress("KEY_Q")>>)>>)
    @@ "Q1" :> ScriptMacro(<<StepQueueButton("Comm3", TRUE), StepQueueMacro("A")>>)
    @@ "R" :> ScriptMacro(<<StepPress("KEY_R"), StepQueueMacro("R"),
                            StepQueueMacro("R")>>)
    @@ "D" :> ScriptMacro(<<StepDown("KEY_B"), StepDown("KEY_D"),
                            StepDown("KEY_D"), StepUp("KEY_D"), StepUp("KEY_D")>>)
    @@ "nest" :> ScriptMacro(<<StepRunMacro("A"), StepRunMacro("T")>>)
    @@ "once" :> ScriptMacro(<<StepIf([syntax_ok |-> TRUE,
                                       body |-> Call("is_set", <<Constant(PyStr("done"))>>)],
                                      <<>>,
                                      <<StepSetVar("done", PyInt(1)),
                                        StepRunMacro("once")>>)>>)
    @@ "loop" :> ScriptMacro(<<StepPress("KEY_L"), StepRunMacro("loop")>>)
    @@ "bad_if" :> ScriptMacro(<<StepIf(NoExpr, <<StepPress("KEY_V")>>,
                                        <<StepPress("KEY_W")>>)>>)
    @@ "bad_key" :> ScriptMacro(<<StepUnknownKey, StepPress("KEY_V")>>)
    @@ "bad_str" :> ScriptMacro(<<StepNotObject("str"), StepPress("KEY_V")>>)
    @@ "bad_qb" :> ScriptMacro(<<StepStrPayload(StepQueueButton("Comm1", TRUE)),
                                 StepPress("KEY_V")>>)
    @@ "bad_int" :> ScriptMacro(<<StepNotObject("int"), StepPress("KEY_V")>>)
    @@ "bad_press" :> ScriptMacro(<<StepPress("KEY_U"),
                                    StepStrPayload(StepPress("KEY_V"))>>)
    @@ "bad_led" :> ScriptMacro(<<StepStrPayload(StepLedSet("Comm1", 15))>>)

DispatchConfigs ==
    { <<[control |-> "Comm1", mapping |-> MapStr("A")],
        [control |-> "Eject", mapping |-> MapStr("B")],
        [control |-> "Comm2", mapping |-> MapDict("KEY_X", "hold")],
        [control |-> "Comm3", mapping |-> MapDict("P", "tap")],
        [control |-> "Nope", mapping |-> MapStr("A")]>>,
      <<[control |-> "Eject", mapping |-> MapStr("B")],
        [control |-> "Comm1", mapping |-> MapStr("D")],
        [control |-> "Comm2", mapping |-> MapDict("nest", "hold")],
        [control |-> "Comm3", mapping |-> MapList(<<"once">>)]>> }

\* the buttons a report can show down
DownArgs == {{}, {3}, {28}, {29}, {30}, {3, 28}, {3, 29}, {29, 30}}

\* the names run_macro is called with
MacroNameArgs ==
    {"", "A", "nest", "once", "loop", "KEY_X", "nope", "Q1", "R", "bad_if", "bad_key",
     "bad_str", "bad_qb", "bad_int", "bad_press", "bad_led"}

\* MacroEngine.__init__ on a config with control_macros, the driver after
\* apply_config with the default LED modes
DispatchInit ==
    /\ EffectsIdle
    /\ macros = DispatchMacros
    /\ control_macros \in DispatchConfigs
    /\ analog_zones = <<>>
    /\ gear_zones = <<>>
    /\ active_keys = {}
    /\ axis_active = <<>>
    /\ gear_active = <<>>
    /\ engine_out = <<>>
    /\ analog_in = <<>>
    /\ gear_in = <<>>
    /\ engine_raised = FALSE
    /\ engine_call = "init"
    /\ raw_control_data = [none |-> TRUE, down |-> {}]
    /\ prev_control_data = [none |-> TRUE, down |-> {}]
    /\ led_modes = build_default_led_modes
    /\ flash_on = FALSE
    /\ logical_states = [name \in DOMAIN button_name_to_index |-> FALSE]
    /\ led_writes = <<>>
    /\ last_call = "init"
    /\ toggle_hist = [b \in PressedArgs |-> <<>>]

DispatchFrameStep == \E down \in DownArgs : DispatchFrame(down)

RunMacroCallStep == \E name \in MacroNameArgs : RunMacroCall(name)

DispatchNext ==
    \/ DispatchFrameStep
    \/ RunMacroCallStep
    \/ DrainReplay

\* a config with layer-indexed lists: Comm1 (LED mode toggle, so a tap) has
\* three layers, Eject (LED mode flash, so a hold) has two; macros set the
\* layer below 0, above every list, and cycle it
LayerMacros ==
    "A" :> KeyMacro(<<"KEY_A">>)
    @@ "B" :> KeyMacro(<<"KEY_B">>)
    @@ "C" :> KeyMacro(<<"KEY_C">>)
    @@ "neg" :> ScriptMacro(<<StepSetLayer(-1)>>)
    @@ "big" :> ScriptMacro(<<StepSetLayer(5)>>)
    @@ "cyc" :> ScriptMacro(<<StepCycleLayer>>)

LayerConfigs ==
    { <<[control |-> "Comm1", mapping |-> MapList(<<"A", "B", "C">>)],
        [control |-> "Eject", mapping |-> MapList(<<"A", "B">>)]>>,
      <<[control |-> "Comm1", mapping |-> MapList(<<"C", "A">>)],
        [control |-> "Eject", mapping |-> MapStr("B")]>> }

\* the buttons a report can show down: Eject (3), Comm1 (28) and the layer
\* cycle button LeftJoySightChange (33)
LayerDownArgs == {{}, {3}, {28}, {33}, {3, 28}, {3, 33}, {28, 33}}

LayerMacroArgs == {"neg", "big", "cyc"}

\* MacroEngine.__init__ on a config with layer lists
LayerInit ==
    /\ EffectsIdle
    /\ macros = LayerMacros
    /\ control_macros \in LayerConfigs
    /\ analog_zones = <<>>
    /\ gear_zones = <<>>
    /\ active_keys = {}
    /\ axis_active = <<>>
    /\ gear_active = <<>>
    /\ engine_out = <<>>
    /\ analog_in = <<>>
    /\ gear_in = <<>>
    /\ engine_raised = FALSE
    /\ engine_call = "init"
    /\ raw_control_data = [none |-> TRUE, down |-> {}]
    /\ prev_control_data = [none |-> TRUE, down |-> {}]
    /\ led_modes = build_default_led_modes
    /\ flash_on = FALSE
    /\ logical_states = [name \in DOMAIN button_name_to_index |-> FALSE]
    /\ led_writes = <<>>
    /\ last_call = "init"
    /\ toggle_hist = [b \in PressedArgs |-> <<>>]

LayerFrameStep == \E down \in LayerDownArgs : DispatchFrame(down)

LayerMacroStep == \E name \in LayerMacroArgs : RunMacroCall(name)

LayerNext ==
    \/ LayerFrameStep
    \/ LayerMacroStep

EngineIdle == EvalIdle /\ ZoneIdle

-----------------------------------------------------------------------------
(* LED effects: MacroEngine.tick *)

\* bound of the effect model
MaxMono == 5      \* last value of the monotonic clock, in ms

\* int(x) of the quotient num / den, den > 0: truncation towards zero
TruncDiv(num, den) == IF num >= 0 THEN num \div den ELSE -((-num) \div den)

\* the intensity tick computes for an effect at time clock; times are whole
\* milliseconds here and the triangle wave is computed exactly
EffectIntensity(effect, clock) ==
    LET period == effect.period_ms
        phase  == (clock - effect.start) % period
    IN  IF effect.type = "blink"
        THEN IF phase <= effect.on_ms THEN effect.intensity ELSE 0
        ELSE LET dist == IF 2 * phase >= period THEN 2 * phase - period
                         ELSE period - 2 * phase
             IN  TruncDiv(effect.min * period
                             + (effect.max - effect.min) * (period - dist),
                          period)

\* duration is not None and now - effect["start"] >= duration / 1000.0
Expired(effect, clock) ==
    /\ effect.duration_ms # <<>>
    /\ clock - effect.start >= effect.duration_ms[1]

RECURSIVE TickFrom(_, _, _)
\* the loop of tick over the remaining items of led_effects.  T holds the
\* engine value, to_remove and the set_led calls made; a period of 0 ends
\* the call with ZeroDivisionError
TickFrom(T, effects, clock) ==
    IF effects = <<>> \/ T.M.raised THEN T
    ELSE LET led_name == Head(effects).name
             effect   == Head(effects).effect
         IN  IF Expired(effect, clock)
             THEN TickFrom([T EXCEPT !.to_remove = Append(@, led_name)],
                           Tail(effects), clock)
             ELSE IF effect.period_ms = 0 THEN [T EXCEPT !.M = RaiseIn(@)]
             ELSE LET led_id    == led_name_to_id[led_name]
                      intensity == EffectIntensity(effect, clock)
                  IN  TickFrom([T EXCEPT
                                   !.M.led = SetLedIn(@, led_id, intensity),
                                   !.writes = Append(@, <<led_id, intensity>>)],
                               Tail(effects), clock)

\* MacroEngine.tick: the loop, then the removal of the names in to_remove
TickIn(M) ==
    LET T == TickFrom([M |-> M, to_remove |-> <<>>, writes |-> <<>>],
                      M.led_effects, M.monotonic)
        Kept(e) == \A i \in DOMAIN T.to_remove : T.to_remove[i] # e.name
    IN  IF T.M.raised THEN T
        ELSE [T EXCEPT !.M.led_effects = SelectSeq(@, Kept)]

\* macro_engine.tick() of the runtime loop
Tick ==
    /\ ~engine_raised
    /\ \E T \in {TickIn(EngineValue)} :
          /\ raw_led_data' = T.M.led.raw
          /\ led_state' = T.M.led.st
          /\ led_effects' = T.M.led_effects
          /\ engine_raised' = T.M.raised
          /\ tick_writes' = T.writes
          /\ tick_removed' = T.to_remove
    /\ engine_call' = "tick"
    /\ engine_out' = <<>>
    /\ UNCHANGED <<monotonic, cycle_hist, evars, zvars, analog_in, gear_in>>
    /\ UNCHANGED <<qvars, qhist, vvars, vhist>>
    /\ UNCHANGED <<chist, lvars, lhist, avars, gvars>>

\* time passes between two calls
AdvanceClock(d) ==
    /\ monotonic + d <= MaxMono
    /\ monotonic' = monotonic + d
    /\ UNCHANGED <<led_effects, fhist, evars, zvars, zhist>>
    /\ UNCHANGED not_engine

\* the macros of a config with LED effects: Comm1 blinks for 2 ms or breathes
\* without end, Comm2 breathes for 3 ms or blinks with a period of 0, an
\* effect names no LED of the panel, a payload is a string
EffectMacros ==
    "blink1" :> ScriptMacro(<<StepLedBlink("Comm1",
                    EffectPayload(<<2>>, <<2>>, <<1>>, <<>>, <<>>, <<>>))>>)
    @@ "breathe1" :> ScriptMacro(<<StepLedBreathe("Comm1",
                    EffectPayload(<<>>, <<4>>, <<>>, <<>>, <<>>, <<>>))>>)
    @@ "breathe2" :> ScriptMacro(<<StepLedBreathe("Comm2",
                    EffectPayload(<<3>>, <<4>>, <<>>, <<>>, <<3>>, <<9>>))>>)
    @@ "zero" :> ScriptMacro(<<StepLedBlink("Comm2",
                    EffectPayload(<<1>>, <<0>>, <<>>, <<>>, <<>>, <<>>))>>)
    @@ "ghost" :> ScriptMacro(<<StepLedBlink("Bogus", NoEffectPayload)>>)
    @@ "bad_blink" :> ScriptMacro(<<StepStrPayload(
                    StepLedBlink("Comm1", NoEffectPayload))>>)

EffectNameArgs == DOMAIN EffectMacros

\* MacroEngine.__init__ on that config, the driver after apply_config
EffectsInit ==
    /\ led_effects = <<>>
    /\ monotonic = 0
    /\ tick_writes = <<>>
    /\ tick_removed = <<>>
    /\ cycle_hist = NoCycle
    /\ macros = EffectMacros
    /\ control_macros = <<>>
    /\ analog_zones = <<>>
    /\ gear_zones = <<>>
    /\ active_keys = {}
    /\ axis_active = <<>>
    /\ gear_active = <<>>
    /\ engine_out = <<>>
    /\ analog_in = <<>>
    /\ gear_in = <<>>
    /\ engine_raised = FALSE
    /\ engine_call = "init"

EffectMacroStep == \E name \in EffectNameArgs : RunMacroCall(name)

AdvanceClockStep == \E d \in {1, 2} : AdvanceClock(d)

EffectsNext ==
    \/ EffectMacroStep
    \/ Tick
    \/ AdvanceClockStep

-----------------------------------------------------------------------------
(* The runtime loop: one polling cycle of main *)

\* the name of a button index: button_name_to_index.items() runs in index order
ButtonNameAt(index) ==
    CHOOSE n \in DOMAIN button_name_to_index : button_name_to_index[n] = index

RECURSIVE FeedVesselFrom(_, _, _)
\* the loop that feeds the vessel model, from button index on: a control
\* that changed is reported with its physical state (logical_state only
\* reaches the payload of the vessel_control event)
FeedVesselFrom(v, C, index) ==
    IF index >= Cardinality(DOMAIN button_name_to_index) THEN v
    ELSE LET w == IF ButtonChanged(C, index)
                  THEN OnControlChangeIn(v, ButtonNameAt(index),
                                         GetButtonState(C, index))
                  ELSE v
         IN  IF w.cs = w.cs THEN FeedVesselFrom(w, C, index + 1) ELSE v

\* a loop that ticks the LED effects before it drains the queue
TickThenReplay(M) ==
    LET T == TickIn(M)
        N == IF T.M.raised THEN T.M ELSE DrainReplayIn(T.M, led_mode)
    IN  [drained |-> IF T.M.raised THEN <<>> ELSE DrainResult(T.M.q),
         T |-> [T EXCEPT !.M = N]]

\* the end of a cycle: the queue is drained and replayed, then
\* macro_engine.tick(); an exception that leaves the replay ends the loop
ReplayThenTick(M) ==
    LET N == DrainReplayIn(M, led_mode)
    IN  [drained |-> DrainResult(M.q),
         T |-> IF N.raised THEN [M |-> N, to_remove |-> <<>>, writes |-> <<>>]
               ELSE TickIn(N)]

\* the macro dispatch of a cycle on the report C, the LEDs R left by
\* handle_button_leds and the queue the vessel model v left.  No analog or
\* gear zone is configured here, so handle_analogs and handle_gears do
\* nothing
CycleDispatch(C, R, v) ==
    HandleButtonsFrom(
        HandleLayerCycle(
            [EngineValue EXCEPT !.prev_control_data = C.prev_control_data,
                                !.raw_control_data = C.raw_control_data,
                                !.led = [raw |-> R.raw, st |-> R.st],
                                !.q = v.q, !.pub = v.pub]),
        1, led_mode)

\* what follows the dispatch; an exception that left the dispatch has ended
\* the loop
CycleEnd(M) ==
    IF M.raised
    THEN [drained |-> <<>>, T |-> [M |-> M, to_remove |-> <<>>, writes |-> <<>>]]
    ELSE ReplayThenTick(M)

\* one cycle of the loop of main from parse_state to macro_engine.tick();
\* update_gear_lights is off
Cycle(down, elapsed) ==
    /\ ~engine_raised
    /\ \E C \in {ParseState(ControlData, down)} :
       \E R \in {HandleButtonLeds(LedValue, C, elapsed)} :
       \E v \in {FeedVesselFrom(VesselValue, C, 0)} :
       \E M \in {CycleDispatch(C, R, v)} :
       \E E \in {CycleEnd(M)} :
          /\ prev_control_data' = C.prev_control_data
          /\ raw_control_data' = C.raw_control_data
          /\ flash_on' = R.flash_on
          /\ led_writes' = R.log
          /\ logical_states' = UpdateLogicalStates(logical_states, R, C)
          /\ control_state' = v.cs
          /\ vstate' = v.st
          /\ raw_led_data' = E.T.M.led.raw
          /\ led_state' = E.T.M.led.st
          /\ events' = E.T.M.q
          /\ published' = E.T.M.pub
          /\ active_keys' = E.T.M.active_keys
          /\ layer' = E.T.M.layer
          /\ macro_vars' = E.T.M.vars
          /\ led_effects' = E.T.M.led_effects
          /\ engine_out' = E.T.M.out
          /\ engine_raised' = E.T.M.raised
          /\ tick_writes' = E.T.writes
          /\ tick_removed' = E.T.to_remove
          /\ cycle_hist' = [fed |-> v.log, queued |-> M.log,
                            drained |-> E.drained]
    /\ last_call' = "frame"
    /\ engine_call' = "cycle"
    /\ scenario' = "off_script"
    /\ UNCHANGED <<maxlen, event_sink, now, ret, qhist>>
    /\ UNCHANGED <<model_type, model_config, control_map>>
    /\ UNCHANGED <<chist, led_modes, toggle_hist, avars, gvars>>
    /\ UNCHANGED <<last_values, eval_input, eval_out, eval_done>>
    /\ UNCHANGED <<macros, analog_zones, gear_zones, axis_active, gear_active,
                   control_macros, analog_in, gear_in, monotonic>>

\* a control_map that puts the life-support prerequisite on Comm1, a button
\* with a toggle LED
RemappedControlMap ==
    [s \in DOMAIN DefaultControlMap |->
        IF s = "life_support" THEN "Comm1" ELSE DefaultControlMap[s]]

\* the configs of the loop model: vessel_model section and input_queue_size
CycleConfigs ==
    { [vessel_model |-> [control_map |-> DefaultControlMap,
                         auto_queue_start |-> TRUE,
                         auto_queue_powerup_macro |-> FALSE],
       input_queue_size |-> 2],
      [vessel_model |-> [control_map |-> RemappedControlMap,
                         auto_queue_start |-> TRUE,
                         auto_queue_powerup_macro |-> FALSE],
       input_queue_size |-> 8] }

\* macros and control_macros of the loop model: Start types KEY_S, Comm2
\* queues the macro fx and a press of Start, fx starts an effect on Comm3's
\* LED that lasts 0 ms and queues a press of Comm5
CycleMacros ==
    "S" :> ScriptMacro(<<StepPress("KEY_S")>>)
    @@ "Q" :> ScriptMacro(<<StepQueueMacro("fx"), StepQueueButton("Start", TRUE),
                            StepLedSet("Comm4", 15)>>)
    @@ "fx" :> ScriptMacro(<<StepLedBlink("Comm3",
                    EffectPayload(<<0>>, <<>>, <<>>, <<>>, <<>>, <<>>)),
                             StepQueueButton("Comm5", TRUE)>>)

CycleControls ==
    <<[control |-> "Start", mapping |-> MapDict("S", "tap")],
      [control |-> "Comm2", mapping |-> MapDict("Q", "tap")]>>

\* the reports of the loop model: the coolant and shielding toggles (36, 38)
\* with the life-support toggle (35) or Comm1 (28), Ignition (5), Comm2 (29)
CycleDownArgs ==
    {{}, {36, 38}, {35, 36, 38}, {28, 36, 38}, {5, 29, 35, 36, 38},
     {5, 29, 28, 36, 38}}

\* main before the loop: the ship model built, the engine and the driver
\* configured, no report read yet
CycleInit ==
    /\ events = <<>>
    /\ \E cfg \in CycleConfigs :
          /\ maxlen = Capacity(cfg.input_queue_size)
          /\ model_config = cfg.vessel_model
    /\ event_sink = "none"
    /\ published = "skipped"
    /\ now = 0
    /\ ret = <<>>
    /\ last_op = "init"
    /\ pushed = <<>>
    /\ pushed_before = <<>>
    /\ drains_in_row = 0
    /\ model_type = "ship"
    /\ control_map = SetDefaults(model_config.control_map, TypeDefaults(model_type))
    /\ control_state = [c \in DOMAIN button_name_to_index |-> FALSE]
    /\ vstate = [power_state |-> "offline",
                 startup_state |-> InitialStartup(model_type),
                 reactor_ready |-> FALSE, online |-> FALSE]
    /\ scenario = "off_script"
    /\ raw_control_data = [none |-> TRUE, down |-> {}]
    /\ prev_control_data = [none |-> TRUE, down |-> {}]
    /\ led_modes = build_default_led_modes
    /\ flash_on = FALSE
    /\ logical_states = [name \in DOMAIN button_name_to_index |-> FALSE]
    /\ led_writes = <<>>
    /\ last_call = "init"
    /\ toggle_hist = [b \in PressedArgs |-> <<>>]
    /\ led_effects = <<>>
    /\ monotonic = 0
    /\ tick_writes = <<>>
    /\ tick_removed = <<>>
    /\ cycle_hist = NoCycle
    /\ macros = CycleMacros
    /\ control_macros = CycleControls
    /\ analog_zones = <<>>
    /\ gear_zones = <<>>
    /\ active_keys = {}
    /\ axis_active = <<>>
    /\ gear_active = <<>>
    /\ engine_out = <<>>
    /\ analog_in = <<>>
    /\ gear_in = <<>>
    /\ engine_raised = FALSE
    /\ engine_call = "init"

CycleStep == \E down \in CycleDownArgs, elapsed \in ElapsedArgs : Cycle(down, elapsed)

CycleNext == CycleStep

-----------------------------------------------------------------------------
(* Specifications *)

InitCodec ==
    QueueInitDefault /\ VesselIdle /\ CodecIdle /\ LedModeIdle /\ EngineIdle /\ DecodeIdle

SpecCodec == InitCodec /\ [][CodecNext]_vars

InitPacked ==
    QueueInitDefault /\ VesselIdle /\ CodecIdle /\ LedModeIdle /\ EngineIdle /\ DecodeIdle

SpecPacked == InitPacked /\ [][PackedNext]_vars

InitVessel ==
    VesselInit /\ CodecIdle /\ LedModeIdle /\ EngineIdle /\ DecodeIdle

SpecVessel == InitVessel /\ [][VesselNext]_vars

InitQueue ==
    QueueInit /\ VesselIdle /\ CodecIdle /\ LedModeIdle /\ EngineIdle /\ DecodeIdle

SpecQueue == InitQueue /\ [][QueueNext]_vars

InitLedMode ==
    /\ QueueInitDefault /\ VesselIdle /\ CodecIdle /\ LedModeInit
    /\ EngineIdle /\ DecodeIdle

SpecLedMode == InitLedMode /\ [][LedModeNext]_vars

InitFlash ==
    /\ QueueInitDefault /\ VesselIdle /\ CodecIdle /\ FlashInit
    /\ EngineIdle /\ DecodeIdle

SpecFlash == InitFlash /\ [][FlashNext]_vars

InitEval ==
    /\ QueueInitDefault /\ VesselIdle /\ CodecIdle /\ DriverAfterRead
    /\ EvalInit /\ ZoneIdle /\ DecodeIdle

SpecEval == InitEval /\ [][EvalNext]_vars

InitZone ==
    /\ QueueInitDefault /\ VesselIdle /\ CodecIdle /\ LedModeIdle
    /\ EvalIdle /\ ZoneInit /\ DecodeIdle

SpecZone == InitZone /\ [][ZoneNext]_vars

InitDecode ==
    /\ QueueInitDefault /\ VesselIdle /\ CodecIdle /\ LedModeIdle
    /\ EngineIdle /\ DecodeInit

SpecDecode == InitDecode /\ [][DecodeNext]_vars

InitGear ==
    /\ QueueInitDefault /\ VesselIdle /\ CodecIdle /\ LedModeIdle
    /\ EngineIdle /\ axis_buf = <<0, 0>> /\ axis_out = <<>> /\ GearInit

SpecGear == InitGear /\ [][GearNext]_vars

InitDispatch ==
    /\ QueueInitDefault /\ VesselIdle /\ CodecIdle /\ EvalIdle /\ DecodeIdle
    /\ DispatchInit

SpecDispatch == InitDispatch /\ [][DispatchNext]_vars

InitLayer ==
    /\ QueueInitDefault /\ VesselIdle /\ CodecIdle /\ EvalIdle /\ DecodeIdle
    /\ LayerInit

SpecLayer == InitLayer /\ [][LayerNext]_vars

InitEffects ==
    /\ QueueInitDefault /\ VesselIdle /\ CodecIdle /\ LedModeIdle
    /\ EvalIdle /\ DecodeIdle /\ EffectsInit

SpecEffects == InitEffects /\ [][EffectsNext]_vars

InitCycle == CodecIdle /\ EvalIdle /\ DecodeIdle /\ CycleInit

SpecCycle == InitCycle /\ [][CycleNext]_vars

-----------------------------------------------------------------------------
(* Properties *)

\* the nibble of the LED report addressed by led_id
NibbleOf(raw, led_id) ==
    LET hex_pos  == led_id % 2
        byte_pos == (led_id - hex_pos) \div 2
    IN  IF hex_pos = 1 THEN raw[byte_pos] \div 16 ELSE raw[byte_pos] % 16

\* C1: the queue never holds more than its capacity (at least 1), and it
\* holds exactly the most recent records handed to it since the last drain,
\* oldest first: an append to a full queue drops the oldest record.
C1_BoundedDropsOldest ==
    /\ maxlen >= 1
    /\ Len(events) <= maxlen
    /\ events = LastN(pushed, maxlen)

\* C1 witness: capacity 2, three records enqueued, the last two retained
C1_Witness ==
    /\ maxlen = 2
    /\ Len(pushed) = 3
    /\ events = <<pushed[2], pushed[3]>>
    /\ pushed[1] # pushed[2]

\* C2: a drain returns the records still queued in enqueue order and leaves
\* the queue empty; a second drain with no enqueue in between returns the
\* empty list.
C2_DrainReturnsAllAndEmpties ==
    last_op = "drain" =>
        /\ events = <<>>
        /\ drains_in_row = 1 => ret = LastN(pushed_before, maxlen)
        /\ drains_in_row >= 2 => ret = <<>>

\* C2 witness: a second drain right after a drain that returned two records
C2_Witness ==
    /\ last_op = "drain"
    /\ drains_in_row = 2
    /\ maxlen = 2
    /\ Len(pushed_before) = 3

\* all five prerequisite toggles of the mech model are tracked as on
MechAllTracked == \A c \in MechToggleControls : Tracked(control_state, c)

\* C3: along the script hatch press, five toggles on, ignition press, start
\* press from the initial state of the mech model, startup_state is
\* await_subsystems after the hatch press and until the fifth toggle is on,
\* reactor_ready once all five are on, ignition_armed after the ignition
\* press and online after the start press.
C3_MechStartupOrder ==
    model_type = "mech" =>
        CASE scenario = "initial" -> vstate.startup_state = "await_hatch"
          [] scenario = "hatch_pressed" -> vstate.startup_state = "await_subsystems"
          [] scenario = "toggling" ->
                vstate.startup_state =
                    IF MechAllTracked THEN "reactor_ready" ELSE "await_subsystems"
          [] scenario = "ignition_pressed" -> vstate.startup_state = "ignition_armed"
          [] scenario = "start_pressed" -> vstate.startup_state = "online"
          [] OTHER -> TRUE

\* C3 witness: the script has been followed to its end
C3_Witness ==
    /\ model_type = "mech"
    /\ scenario = "start_pressed"
    /\ vstate.startup_state = "online"
    /\ vstate.power_state = "main_reactor"

\* some prerequisite toggle of the mech model is not tracked as on
SomeMechToggleOff == \E i \in 1 .. Len(MechToggles) : ~IsOn(MechToggles[i])

\* a press of the ignition control
IgnitionPress ==
    \E l \in LogicalStateArgs : OnControlChange(MapControl("ignition"), TRUE, l)

\* C4: in the mech model, whenever some prerequisite toggle is not tracked
\* as on, reactor_ready is false and an ignition press does not set
\* startup_state to ignition_armed.
C4_MechToggleGate ==
    [][ (model_type = "mech" /\ SomeMechToggleOff) =>
            /\ ~vstate.reactor_ready
            /\ IgnitionPress =>
                 (vstate'.startup_state = "ignition_armed"
                    => vstate.startup_state = "ignition_armed") ]_vars

\* C5: after set_led(led_id, intensity) with led_id in 4..41 other than 34
\* and intensity in 0..15, the nibble of the LED report addressed by led_id
\* (byte (led_id - led_id % 2) / 2, high nibble for an odd id, low nibble for
\* an even one) reads back intensity; with led_id 34 or outside 4..41 the
\* call leaves the report and led_state as they were.
C5_SetLedRoundTrip ==
    last_set.op = "set_led" =>
        /\ (/\ last_set.led_id \in (4 .. 41) \ {34}
            /\ last_set.intensity \in 0 .. 15)
              => /\ NibbleOf(raw_led_data, last_set.led_id) = last_set.intensity
                 /\ led_state[last_set.led_id] = last_set.intensity
        /\ (last_set.led_id = 34 \/ last_set.led_id \notin 4 .. 41)
              => last_set.same

\* C5 witness: set_led(41, 9) after set_all_leds(15): the high nibble of byte
\* 20 reads 9 and its low nibble still holds LED 40's 15
C5_Witness ==
    /\ last_set.op = "set_led"
    /\ last_set.led_id = 41
    /\ last_set.intensity = 9
    /\ raw_led_data[20] = 9 * 16 + 15
    /\ ~last_set.same

\* C6 as stated: whenever a toggle-mode control has had two consecutive press
\* edges with no other write to its LED in between, the LED holds the value
\* it held before the first of the two edges, whatever that value was.
C6_ToggleTwoEdgesRestore ==
    \A b \in PressedArgs :
        Len(toggle_hist[b]) = 2 =>
            led_state[ButtonLedId(b)] = toggle_hist[b][1]

\* C6 amended: after two such edges the LED holds the value it held before the
\* first edge when that value was 0 or 15; from any other value it holds 15.
C6_ToggleTwoEdgesRestoreBinary ==
    \A b \in PressedArgs :
        Len(toggle_hist[b]) = 2 =>
            IF toggle_hist[b][1] \in {0, 15}
            THEN led_state[ButtonLedId(b)] = toggle_hist[b][1]
            ELSE led_state[ButtonLedId(b)] = 15

\* C6 witness: a toggle LED that was lit, switched off by a first press edge
\* and lit again by the second
C6_Witness ==
    \E b \in PressedArgs :
        /\ toggle_hist[b] = <<15, 0>>
        /\ led_state[ButtonLedId(b)] = 15

\* the latched controls of the configured LED modes with their peer lists as
\* configured: button and LED of the control, LED and button of each peer
\* (button -1: the peer LED has no button)
LatchedControls ==
    IF led_modes["Comm2"] = <<"Toggle">>
    THEN {[button |-> 28, led |-> 29,
           peers |-> <<[led |-> 31, button |-> 30],
                       [led |-> 30, button |-> 29],
                       [led |-> 37, button |-> -1]>>]}
    ELSE {[button |-> 28, led |-> 29,
           peers |-> <<[led |-> 30, button |-> 29],
                       [led |-> 31, button |-> 30]>>],
          [button |-> 29, led |-> 30,
           peers |-> <<[led |-> 29, button |-> 28]>>]}

\* what C7 says of the handle_button_leds call of a step, for latched control
\* A: (1) the writes made for A to other LEDs are exactly the switch-offs of
\* the peers that were lit when A's LED was turned on, in peer-list order, and
\* there are none when A's LED was not turned on; (2) after the call every
\* such peer whose own button is not down is off; (3) when a peer's control
\* has a press edge, A's LED is off after the call.
LatchedPeersIn(A) ==
    LET log   == led_writes'
        on_at == {i \in DOMAIN log : log[i] = <<A.led, 15, A.button>>}
        first == CHOOSE i \in on_at : \A j \in on_at : i <= j
        ValueBefore(led) ==
            LET prior == {i \in 1 .. first - 1 : log[i][1] = led}
            IN  IF prior = {} THEN led_state[led]
                ELSE log[CHOOSE i \in prior : \A j \in prior : j <= i][2]
        WasLit(peer) == ValueBefore(peer.led) > 0
        ByA(e) == e[3] = A.button /\ e[1] # A.led
        lit == SelectSeq(A.peers, WasLit)
        Edge(button) ==
            /\ button # -1
            /\ ~prev_control_data'.none
            /\ button \in raw_control_data'.down
            /\ button \notin prev_control_data'.down
    IN  /\ on_at # {} =>
              /\ SelectSeq(log, ByA)
                    = [i \in 1 .. Len(lit) |-> <<lit[i].led, 0, A.button>>]
              /\ \A i \in 1 .. Len(lit) :
                    lit[i].button \notin raw_control_data'.down
                        => led_state'[lit[i].led] = 0
        /\ on_at = {} => SelectSeq(log, ByA) = <<>>
        /\ (\E i \in DOMAIN A.peers : Edge(A.peers[i].button))
              => led_state'[A.led] = 0

\* C7: in every handle_button_leds call, a press edge on a latched control A
\* that turns A's LED on switches off every peer LED that was lit, peers
\* visited in configured list order, and a press edge on a peer's control
\* leaves A's LED off.
C7_LatchedPeers ==
    [][last_call' = "frame" => \A A \in LatchedControls : LatchedPeersIn(A)]_vars

\* C7 witness: Comm1 configured with peers Comm3, Comm2 (in that order) is
\* pressed while both peer LEDs are lit: Comm1's LED goes on, then Comm3's
\* and Comm2's go off
C7_Witness ==
    /\ last_call = "frame"
    /\ Len(led_writes) >= 3
    /\ SubSeq(led_writes, 1, 3) = <<<<29, 15, 28>>, <<31, 0, 28>>, <<30, 0, 28>>>>
    /\ led_state[30] = 0

\* the calls an expression tree makes when every node of it is evaluated, in
\* source order (the arguments of its calls being constants)
RECURSIVE CallsLeftToRight(_)
RECURSIVE CallsOfAll(_)
CallsOfAll(nodes) ==
    IF nodes = <<>> THEN <<>>
    ELSE CallsLeftToRight(Head(nodes)) \o CallsOfAll(Tail(nodes))
CallsLeftToRight(node) ==
    IF node.kind = "Call"
    THEN <<<<node.id, [i \in DOMAIN node.kids |-> node.kids[i].value]>>>>
    ELSE CallsOfAll(node.kids)

\* C8: evaluating an and/or expression evaluates every operand, left to right,
\* whatever the values of the operands before it: the calls made are the calls
\* of the whole expression in source order.
C8_EagerBoolOp ==
    (eval_done /\ eval_input.syntax_ok /\ eval_input.body.kind = "BoolOp") =>
        /\ ~eval_out.raised
        /\ eval_out.calls = CallsLeftToRight(eval_input.body)

\* C8 witness: pressed("Comm1") and pressed("Comm2") with Comm1 released: the
\* call for Comm1, then the call for Comm2, and the result is False
C8_Witness ==
    /\ eval_done
    /\ eval_input.body = BoolOp("And", <<Pressed("Comm1"), Pressed("Comm2")>>)
    /\ 28 \notin raw_control_data.down
    /\ eval_out.calls = <<<<"pressed", <<PyStr("Comm1")>>>>,
                          <<"pressed", <<PyStr("Comm2")>>>>>>
    /\ eval_out.val = PyBool(FALSE)

\* the action of the first zone, in list order, whose bounds contain v
\* ("None" when no zone does)
FirstAnalogMatch(zones, v) ==
    LET M == {i \in DOMAIN zones :
                 /\ zones[i].min # <<>> /\ zones[i].max # <<>>
                 /\ zones[i].min[1] <= v /\ v <= zones[i].max[1]}
    IN  IF M = {} THEN "None"
        ELSE zones[CHOOSE i \in M : \A j \in M : i <= j].action

\* the action of the first gear zone, in list order, that lists g
FirstGearMatch(zones, g) ==
    LET M == {i \in DOMAIN zones :
                 \/ zones[i].values # <<>>
                    /\ \E k \in DOMAIN zones[i].values[1] : zones[i].values[1][k] = g
                 \/ zones[i].values = <<>> /\ zones[i].value = <<g>>}
    IN  IF M = {} THEN "None"
        ELSE zones[CHOOSE i \in M : \A j \in M : i <= j].action

\* C9: after a handle_analogs that returned, the action recorded for every
\* axis that had a value is the action of the first zone in list order that contains the
\* value, and after handle_gears the action recorded is that of the first gear
\* zone that lists the gear value; a later zone that also matches is never
\* chosen.
C9_FirstZoneWins ==
    /\ (analog_in # <<>> /\ ~engine_raised) =>
          \A i \in DOMAIN analog_zones :
              LET axis == analog_zones[i].axis
              IN  axis \in DOMAIN analog_in[1] =>
                    (IF axis \in DOMAIN axis_active
                     THEN axis_active[axis].action ELSE "None")
                        = FirstAnalogMatch(analog_zones[i].zones,
                                           analog_in[1][axis])
    /\ (gear_in # <<>> /\ "gear" \in DOMAIN gear_in[1]) =>
          (IF gear_active = <<>> THEN "None" ELSE gear_active[1].action)
              = FirstGearMatch(gear_zones, gear_in[1]["gear"])

\* C9 witness: zones [0..10 -> A, 5..20 -> B] with value 7 resolve to A, and
\* gear zones [[1, 2] -> A, [2, 3] -> B] with gear 2 resolve to A
C9_Witness ==
    /\ Len(analog_zones) = 1
    /\ analog_zones[1].zones[2].action = "B"
    /\ analog_in = <<[a \in {"aim_x"} |-> 7]>>
    /\ axis_active["aim_x"].action = "A"
    /\ gear_in = <<[a \in {"gear"} |-> 2]>>
    /\ gear_active = <<[action |-> "A", behavior |-> "hold"]>>

\* C10: for every pair of bytes (hi, lo) the signed decode is u - 1024 when
\* hi >= 128 and u when hi < 128, u being the unsigned 10-bit decode
\* ((hi << 2) | (lo >> 6)) & 0x3FF of the same pair.
C10_SignedAxisDecode ==
    axis_out # <<>> =>
        LET hi == axis_buf[1]
            lo == axis_buf[2]
            u  == axis_out[1]
        IN  /\ u = ((hi * 4) % 1024) + (lo \div 64)
            /\ axis_out[2] = IF hi >= 128 THEN u - 1024 ELSE u

\* C10 witness: hi = 200, lo = 0 decodes to 800 unsigned and 800 - 1024 signed
C10_Witness == axis_buf = <<200, 0>> /\ axis_out = <<800, -224>>

\* C11: the gear decode maps raw byte 255 to -1, raw byte 254 to -2 and
\* every raw byte 0..253 to itself.
C11_GearDecode ==
    gear_parsed # <<>> =>
        /\ gear_raw = 255 => gear_parsed[1] = -1
        /\ gear_raw = 254 => gear_parsed[1] = -2
        /\ gear_raw \in 0 .. 253 => gear_parsed[1] = gear_raw

\* C11 witness: the reverse sentinel has been decoded
C11_Witness == gear_raw = 254 /\ gear_parsed = <<-2>>

\* the expressions in error: a text that does not parse, a tree the
\* validation rejects, an ordering comparison of a string with a number
ExprInError(expr) ==
    \/ ~expr.syntax_ok
    \/ ~ValidateExprTree(expr.body)
    \/ expr.body = Compare(Constant(PyStr("a")), <<"Lt">>, <<Constant(PyInt(1))>>)

\* C12: _eval_expr never raises, and for an expression in error (syntax
\* error, call outside the allow-list, unsupported node kind, ordering
\* comparison of a string with a number) its result is false.
C12_FailsClosed ==
    eval_done /\ eval_input \in ExprArgs =>
        /\ ~eval_out.raised
        /\ ExprInError(eval_input) => eval_out.val = PyBool(FALSE)

KeyDown(key) == <<"macro_key", key, "down">>
KeyUp(key) == <<"macro_key", key, "up">>

EdgeKey(button, behavior, key) ==
    [button |-> button, behavior |-> behavior, script |-> FALSE,
     key |-> key, out |-> <<>>]

EdgeScript(button, behavior, out) ==
    [button |-> button, behavior |-> behavior, script |-> TRUE,
     key |-> "", out |-> out]

\* the controls of the dispatch configs in the order of control_macros, with
\* the key of a key macro and the key events one run of a step script emits
EdgeControls ==
    IF control_macros[1].control = "Comm1"
    THEN <<EdgeKey(28, "tap", "KEY_A"),
           EdgeKey(3, "hold", "KEY_B"),
           EdgeKey(29, "hold", "KEY_X"),
           EdgeScript(30, "tap", <<KeyDown("KEY_T"), KeyUp("KEY_T")>>)>>
    ELSE <<EdgeKey(3, "hold", "KEY_B"),
           EdgeScript(28, "tap", <<KeyDown("KEY_B"), KeyDown("KEY_D"),
                                   KeyDown("KEY_D"), KeyUp("KEY_D"),
                                   KeyUp("KEY_D")>>),
           EdgeScript(29, "hold", <<KeyDown("KEY_A"), KeyUp("KEY_A"),
                                    KeyDown("KEY_T"), KeyUp("KEY_T")>>),
           EdgeScript(30, "tap", <<>>)>>

EdgeChanged(c, prev, cur) ==
    ~prev.none /\ ~cur.none /\ (c.button \in cur.down) # (c.button \in prev.down)

\* what control c emits in a cycle that goes from report prev to report cur
\* with the keys held being the set held
EdgeOutput(c, prev, cur, held) ==
    LET pressed == c.button \in cur.down
    IN  IF ~EdgeChanged(c, prev, cur) THEN <<>>
        ELSE IF c.behavior = "tap"
        THEN IF ~pressed THEN <<>>
             ELSE IF c.script THEN c.out
             ELSE <<KeyDown(c.key), KeyUp(c.key)>>
        ELSE IF c.script THEN c.out
        ELSE IF pressed
        THEN IF c.key \in held THEN <<>> ELSE <<KeyDown(c.key)>>
        ELSE IF c.key \in held THEN <<KeyUp(c.key)>> ELSE <<>>

RECURSIVE EdgeOutputs(_, _, _, _)
EdgeOutputs(cs, prev, cur, held) ==
    IF cs = <<>> THEN <<>>
    ELSE EdgeOutput(Head(cs), prev, cur, held)
            \o EdgeOutputs(Tail(cs), prev, cur, held)

\* C13: in a cycle a control whose state did not change runs nothing; a tap
\* action runs once on the press edge and not on the release edge; a hold
\* action that is a key macro presses its key on the press edge and releases
\* it on the release edge, the key being held in between; a hold action that
\* is a step script runs its steps once on the press edge and once more on
\* the release edge.
C13_DispatchOnEdge ==
    [][engine_call' = "frame" =>
          /\ engine_out' = EdgeOutputs(EdgeControls, prev_control_data',
                                       raw_control_data', active_keys)
          /\ \A i \in DOMAIN EdgeControls :
                LET c == EdgeControls[i]
                IN  c.behavior = "hold" /\ ~c.script 
                    /\ EdgeChanged(c, prev_control_data', raw_control_data')
                    => (c.key \in active_keys'
                           <=> c.button \in raw_control_data'.down)]_vars

\* C13 witness: the cycle in which Eject (hold, key macro) goes down and
\* Comm2 (hold, step script) goes up
C13_Witness ==
    /\ engine_call = "frame" /\ control_macros[1].control = "Eject"
    /\ prev_control_data = [none |-> FALSE, down |-> {29}]
    /\ raw_control_data = [none |-> FALSE, down |-> {3}]
    /\ engine_out = <<KeyDown("KEY_B"), KeyDown("KEY_A"), KeyUp("KEY_A"),
                      KeyDown("KEY_T"), KeyUp("KEY_T")>>
    /\ active_keys = {"KEY_B"}

\* C13 as stated, for every hold action: a cycle in which the only change is
\* a hold control going up presses no key
C13_HoldReleaseOnly ==
    [][engine_call' = "frame" =>
          \A i \in DOMAIN EdgeControls :
              LET c == EdgeControls[i]
              IN  /\ c.behavior = "hold"
                  /\ EdgeChanged(c, prev_control_data', raw_control_data')
                  /\ c.button \notin raw_control_data'.down
                  /\ \A j \in DOMAIN EdgeControls : j # i =>
                        ~EdgeChanged(EdgeControls[j], prev_control_data',
                                     raw_control_data')
                  => \A k \in DOMAIN engine_out' : engine_out'[k][3] # "down"]_vars

\* the events of key in a call's output, in order
RECURSIVE KeyStates(_, _)
KeyStates(out, key) ==
    IF out = <<>> THEN <<>>
    ELSE IF Head(out)[1] = "macro_key" /\ Head(out)[2] = key
         THEN <<Head(out)[3]>> \o KeyStates(Tail(out), key)
         ELSE KeyStates(Tail(out), key)

OutKeys == {engine_out[k][2] : k \in DOMAIN engine_out}

\* C14: the key events one call emits alternate for each key: a key is not
\* pressed twice without a release in between, nor released twice without a
\* press in between.
C14_StepKeysAlternate ==
    \A key \in OutKeys :
        LET s == KeyStates(engine_out, key)
        IN  \A k \in 1 .. Len(s) - 1 : s[k] # s[k + 1]

\* the keys of the action named: the keys of a key macro, the name itself
\* for a KEY_ name, the keys of the Press, Down and Up steps of a script
RECURSIVE StepKeys(_)
StepKeys(steps) ==
    IF steps = <<>> THEN {}
    ELSE (IF Head(steps).op \in {"press", "down", "up"}
          THEN {Head(steps).name} ELSE {}) \cup StepKeys(Tail(steps))

ActionKeys(action) ==
    IF action \in DOMAIN macros
    THEN IF macros[action].script THEN StepKeys(macros[action].steps)
         ELSE {macros[action].keys[k] : k \in DOMAIN macros[action].keys}
    ELSE IF action \in KeyPrefixed THEN {action}
    ELSE {}

\* the positions in out of the zone event of the axis, action and state
ZoneEventAt(out, axis, action, state) ==
    {k \in DOMAIN out : /\ out[k][1] = "analog_zone" /\ out[k][2] = axis
                        /\ out[k][4] = action /\ out[k][6] = state}

KeyEventAt(out, key, state) ==
    {k \in DOMAIN out : /\ out[k][1] = "macro_key" /\ out[k][2] = key
                        /\ out[k][3] = state}

\* the recorded action of an axis
RecordedAction(active, axis) ==
    IF axis \in DOMAIN active THEN active[axis] ELSE NoAction

\* C15: in a handle_analogs call, for an axis whose winning action differs
\* from the recorded one: the keys of the previous action are released if
\* its behavior was hold, before its exit event; the new action is invoked
\* (the keys of a tap pressed and released, the keys of a hold pressed and
\* held); the exit event of the previous action precedes the enter event of
\* the new one; the new action is recorded.  When no axis changes its
\* winning action the call emits nothing and changes nothing.
C15_AnalogZoneChange ==
    [][engine_call' = "analogs" =>
          LET state == analog_in'[1]
              Changed == {i \in DOMAIN analog_zones :
                            /\ analog_zones[i].axis \in DOMAIN state
                            /\ FirstAnalogMatch(analog_zones[i].zones,
                                                state[analog_zones[i].axis])
                                 # RecordedAction(axis_active,
                                                  analog_zones[i].axis).action}
          IN  /\ Changed = {} =>
                    /\ engine_out' = <<>>
                    /\ UNCHANGED <<axis_active, active_keys>>
              /\ \A i \in Changed :
                    LET axis == analog_zones[i].axis
                        prev == RecordedAction(axis_active, axis)
                        cur  == RecordedAction(axis_active', axis)
                        exit == ZoneEventAt(engine_out', axis, prev.action, "exit")
                        enter == ZoneEventAt(engine_out', axis, cur.action, "enter")
                    IN  /\ cur.action = FirstAnalogMatch(analog_zones[i].zones,
                                                         state[axis])
                        /\ ActionTruthy(prev.action) =>
                              /\ Cardinality(exit) = 1
                              /\ prev.behavior = "hold" =>
                                    \A key \in ActionKeys(prev.action)
                                                  \cap active_keys :
                                        \E k \in KeyEventAt(engine_out', key, "up") :
                                            \A x \in exit : k < x
                        /\ ActionTruthy(cur.action) =>
                              /\ Cardinality(enter) = 1
                              /\ \A x \in exit : \A n \in enter : x < n
                              /\ \A key \in ActionKeys(cur.action) :
                                    /\ \E k \in KeyEventAt(engine_out', key, "down") :
                                           \A n \in enter : k < n
                                    /\ key \in active_keys'
                                           <=> cur.behavior # "tap"]_vars

GearEventAt(out, action, state) ==
    {k \in DOMAIN out : /\ out[k][1] = "gear_zone"
                        /\ out[k][4] = action /\ out[k][6] = state}

\* C16: in a handle_gears call in which the winning gear action differs from
\* the recorded one, the keys of the previous action are released if its
\* behavior was hold and its exit event is published, the keys of the new
\* action are pressed (and held if its behavior is hold) and its enter event
\* is published after the exit event.
C16_GearZoneChange ==
    [][(engine_call' = "gears" /\ "gear" \in DOMAIN gear_in'[1]) =>
          LET prev == IF gear_active = <<>> THEN NoAction ELSE gear_active[1]
              cur  == IF gear_active' = <<>> THEN NoAction ELSE gear_active'[1]
              exit == GearEventAt(engine_out', prev.action, "exit")
              enter == GearEventAt(engine_out', cur.action, "enter")
          IN  cur.action # prev.action =>
                 /\ ActionTruthy(prev.action) =>
                       /\ exit # {}
                       /\ prev.behavior = "hold" =>
                             ActionKeys(prev.action) \cap active_keys'
                                 \subseteq ActionKeys(cur.action)
                 /\ ActionTruthy(cur.action) =>
                       /\ enter # {}
                       /\ \A x \in exit : \A n \in enter : x < n
                       /\ \A key \in ActionKeys(cur.action) :
                             /\ KeyEventAt(engine_out', key, "down") # {}
                             /\ key \in active_keys' <=> cur.behavior # "tap"]_vars

\* C17: after a cycle's update_logical_states the logical state of a control
\* whose LED is in toggle or latched mode tells whether the LED intensity is
\* nonzero, and the logical state of every other control, the controls with
\* no LED included, is its press state in the cycle's report.
C17_LogicalStates ==
    last_call = "frame" =>
        \A name \in DOMAIN button_name_to_index :
            LET idx == button_name_to_index[name]
                lit == idx \in DOMAIN button_to_led_name
                mode == ParseLedMode(led_modes[button_to_led_name[idx]]).mode
            IN  logical_states[name] =
                    IF lit /\ mode \in {<<"toggle">>, <<"latched">>}
                    THEN led_state[led_name_to_id[button_to_led_name[idx]]] # 0
                    ELSE idx \in raw_control_data.down

\* C17 witness: Comm2 in toggle mode stays logically on after its release,
\* Comm1 in latched mode is off while held, Comm3 in momentary mode and the
\* LED-less RightJoyMainWeapon follow the press
C17_Witness ==
    /\ last_call = "frame"
    /\ led_modes["Comm2"] = <<"Toggle">>
    /\ raw_control_data.down = {0, 28, 30}
    /\ logical_states["Comm2"] /\ ~logical_states["Comm1"]
    /\ logical_states["Comm3"] /\ logical_states["RightJoyMainWeapon"]

\* C18: in every vessel variant a call on_control_change(control, pressed)
\* whose pressed value is the one already tracked for the control changes no
\* VesselState field, emits no event and enqueues nothing.
C18_DuplicateSuppressed ==
    [][\A c \in VesselControls, p \in BOOLEAN, l \in LogicalStateArgs :
          (Tracked(control_state, c) = p /\ OnControlChange(c, p, l))
              => UNCHANGED <<vstate, events, published>>]_vars

\* a press of the start control
StartPress ==
    \E l \in LogicalStateArgs : OnControlChange(MapControl("start"), TRUE, l)

\* the steps of a gated startup: ignition_armed is entered by an ignition
\* press with reactor_ready, online by a start press with reactor_ready, and
\* an ignition or start press without reactor_ready leaves vstate alone
GatedStartup ==
    /\ (vstate'.startup_state = "ignition_armed"
          /\ vstate.startup_state # "ignition_armed")
          => (vstate.reactor_ready /\ IgnitionPress)
    /\ (vstate'.startup_state = "online" /\ vstate.startup_state # "online")
          => (vstate.reactor_ready /\ StartPress
                /\ vstate'.power_state = "main_reactor")
    /\ (~vstate.reactor_ready /\ (IgnitionPress \/ StartPress))
          => (vstate' = vstate)

C20_MacrosReturn ==
    [][\A name \in MacroNameArgs :
          (RunMacroCall(name) /\ ~ReportedInvalid(name)) => ~engine_raised']_vars

\* C21: running a macro that validate_macros reports as invalid never raises
\* out of _run_steps; the offending step is skipped or does nothing.
C21_InvalidMacrosReturn ==
    [][\A name \in MacroNameArgs :
          (RunMacroCall(name) /\ ReportedInvalid(name)) => ~engine_raised']_vars


\* C22: when the sink's publish raises, queue_button, queue_macro and
\* queue_event still append their record (the queue is what it would be with
\* a sink that works: the record appended, the oldest dropped when full) and
\* the exception is swallowed inside the call.
C22_PublishFailureSwallowed ==
    [][(event_sink = "raises" /\ Len(pushed') = Len(pushed) + 1) =>
          /\ last_op' \in {"queue_button", "queue_macro", "queue_event"}
          /\ events' = LastN(Append(events, pushed'[Len(pushed')]), maxlen)
          /\ published' = "swallowed"]_vars

\* C22 witness: a queue_macro call on a full queue whose sink raises
C22_Witness ==
    /\ event_sink = "raises"
    /\ last_op = "queue_macro"
    /\ published = "swallowed"
    /\ Len(pushed) = 3 /\ maxlen = 2
    /\ events = <<pushed[2], pushed[3]>>
    /\ events[2].type = "macro"


\* what handle_buttons does with engine value M in a cycle whose report shows
\* the control going to pressed and no other control changing
PhysicalEdge(M, control, pressed) ==
    LET index == button_name_to_index[control]
        cur   == M.raw_control_data
        to    == IF pressed THEN cur.down \cup {index} ELSE cur.down \ {index}
        from  == IF pressed THEN cur.down \ {index} ELSE cur.down \cup {index}
        R     == HandleButtonsFrom(
                    [M EXCEPT !.raw_control_data = [none |-> FALSE, down |-> to],
                              !.prev_control_data = [none |-> FALSE, down |-> from]],
                    1, led_mode)
    IN  [R EXCEPT !.raw_control_data = M.raw_control_data,
                  !.prev_control_data = M.prev_control_data]

\* the drained records taken one after the other: a button record of a panel
\* control as the physical edge, a macro record as one run_macro call
RECURSIVE AsPhysical(_, _)
AsPhysical(M, drained) ==
    IF drained = <<>> \/ M.raised THEN M
    ELSE LET queued == Head(drained)
             N == IF queued.type = "button"
                     /\ queued.name \in DOMAIN button_name_to_index
                  THEN PhysicalEdge(M, queued.name, queued.pressed)
                  ELSE IF queued.type = "macro"
                  THEN RunMacroIn(M, queued.name, 0)
                  ELSE M
         IN  IF N.raised = N.raised THEN AsPhysical(N, Tail(drained)) ELSE M

\* the replay left the engine as the physical edges would have
ReplayedAsPhysical ==
    \E R \in {AsPhysical([EngineValue EXCEPT !.q = <<>>], events)} :
        /\ engine_out' = R.out
        /\ active_keys' = R.active_keys
        /\ macro_vars' = R.vars
        /\ layer' = R.layer
        /\ events' = R.q
        /\ engine_raised' = R.raised

\* the report of the cycle shows every control of a drained button record in
\* the direction of the record
ReportAgrees ==
    \A k \in DOMAIN events :
        (/\ events[k].type = "button"
         /\ events[k].name \in DOMAIN button_name_to_index)
        => ((button_name_to_index[events[k].name] \in raw_control_data.down)
               = events[k].pressed)

ControlEdge ==
    /\ model_type \in {"mech", "ship"}
    /\ \E c \in FedControls(model_type), p \in BOOLEAN, l \in LogicalStateArgs :
          Tracked(control_state, c) # p /\ OnControlChange(c, p, l)

\* C25: in the mech and ship models power_state only moves from offline to
\* capacitor and from capacitor to main_reactor: no on_control_change call
\* takes it from offline to main_reactor or back to an earlier value.
C25_PowerStateOrder ==
    [][ControlEdge =>
          \/ vstate'.power_state = vstate.power_state
          \/ vstate.power_state = "offline" /\ vstate'.power_state = "capacitor"
          \/ vstate.power_state = "capacitor"
              /\ vstate'.power_state = "main_reactor"]_vars

\* the stages of startup_state in order; boot_complete, which the boot sets
\* before the first cycle, comes before the gate
StartupRank(s) ==
    CASE s \in {"idle", "boot_complete", "await_hatch", "await_crew_ready"} -> 0
      [] s = "await_subsystems" -> 1
      [] s = "reactor_ready" -> 2
      [] s = "ignition_armed" -> 3
      [] s = "online" -> 4

\* C26: in the mech and ship models no control edge moves startup_state back
\* to an earlier stage of await gate, await_subsystems, reactor_ready,
\* ignition_armed, online; once online it stays online.
C26_StartupStateForward ==
    [][ControlEdge =>
          StartupRank(vstate'.startup_state) >= StartupRank(vstate.startup_state)]_vars


\* the button and macro records among the records a call pushed
SyntheticOf(log) == SelectSeq(log, LAMBDA e : e.type \in {"button", "macro"})

\* the positions of the event named in the records log
PushedEventAt(log, name) ==
    {k \in DOMAIN log : log[k].type = "event" /\ log[k].name = name}

IsButtonOf(e, control, pressed) ==
    e.type = "button" /\ e.name = control /\ e.pressed = pressed

\* what C27 says of a call that handed the records log to the queue and left
\* the queue as queue
AutoQueued(log, queue) ==
    LET armed  == IF model_config.auto_queue_start
                  THEN PushedEventAt(log, "vessel_ignition_armed") ELSE {}
        online == IF model_config.auto_queue_powerup_macro /\ model_type = "mech"
                  THEN PushedEventAt(log, "vessel_online") ELSE {}
        n      == Min(Len(queue), Len(log))
    IN  /\ \A k \in armed :
              /\ k + 2 <= Len(log)
              /\ IsButtonOf(log[k + 1], MapControl("start"), TRUE)
              /\ IsButtonOf(log[k + 2], MapControl("start"), FALSE)
        /\ \A k \in online :
              /\ k + 1 <= Len(log)
              /\ log[k + 1].type = "macro"
              /\ log[k + 1].name = PowerupMacro
        /\ Len(SyntheticOf(log)) = 2 * Cardinality(armed) + Cardinality(online)
        /\ queue = LastN(events \o [i \in DOMAIN log |-> Stamp(log[i], now)], maxlen)

ButtonMode(button_index) ==
    ParseLedMode(led_modes[button_to_led_name[button_index]]).mode

\* C29: after each handle_button_leds call the LED of a control in flash mode
\* is 0 when the control is released and 15 or 0 with the shared flash flag
\* while it is held; the LED of a control in momentary mode is 15 exactly
\* when the control is held.
C29_FlashAndMomentary ==
    last_call = "frame" =>
        \A b \in DOMAIN button_to_led_name :
            LET held == b \in raw_control_data.down
            IN  /\ ButtonMode(b) = <<"flash">> =>
                      led_state[ButtonLedId(b)]
                         = IF held /\ flash_on THEN MAX_LIGHT_INTENSITY
                           ELSE MIN_LIGHT_INTENSITY
                /\ ButtonMode(b) = <<"momentary">> =>
                      led_state[ButtonLedId(b)]
                         = IF held THEN MAX_LIGHT_INTENSITY
                           ELSE MIN_LIGHT_INTENSITY

\* the effect led_effects holds for a name: <<>> or <<effect>>
EffectOf(effects, name) ==
    LET at == {i \in DOMAIN effects : effects[i].name = name}
    IN  IF at = {} THEN <<>> ELSE <<effects[CHOOSE i \in at : TRUE].effect>>

EffectNames(effects) == {effects[i].name : i \in DOMAIN effects}

\* the effect the script of a macro asks for: <<>> or <<name, effect>>
AskedEffect(name) ==
    LET step == macros[name].steps[1]
    IN  IF step.payload # "dict" \/ step.name \notin DOMAIN led_name_to_id
        THEN <<>>
        ELSE <<step.name,
               IF step.op = "led_blink" THEN BlinkEffect(step.effect, monotonic)
               ELSE BreatheEffect(step.effect, monotonic)>>

\* led_effects holds one entry per LED name
OnePerName ==
    \A i, j \in DOMAIN led_effects :
        led_effects[i].name = led_effects[j].name => i = j

\* a led_blink or led_breathe step leaves its effect, started now, as the
\* effect of its LED, and the effects of the other LEDs as they were
StepReplaces ==
    \A name \in EffectNameArgs :
        (RunMacroCall(name) /\ AskedEffect(name) # <<>>) =>
            \E asked \in {AskedEffect(name)} :
               /\ EffectOf(led_effects', asked[1]) = <<asked[2]>>
               /\ EffectNames(led_effects') = EffectNames(led_effects) \cup {asked[1]}
               /\ \A n \in EffectNames(led_effects) \ {asked[1]} :
                     EffectOf(led_effects', n) = EffectOf(led_effects, n)

\* a tick that returns removes exactly the effects whose duration_ms has
\* elapsed and writes to the LEDs of the others only
TickRemoves ==
    (Tick /\ ~engine_raised') =>
        \A i \in DOMAIN led_effects :
            LET name   == led_effects[i].name
                effect == led_effects[i].effect
                Writes(w) == w[1] = led_name_to_id[name]
            IN  IF effect.duration_ms # <<>>
                   /\ monotonic - effect.start >= effect.duration_ms[1]
                THEN /\ name \notin EffectNames(led_effects')
                     /\ SelectSeq(tick_writes', Writes) = <<>>
                ELSE /\ EffectOf(led_effects', name) = <<effect>>
                     /\ Len(SelectSeq(tick_writes', Writes)) = 1

\* after a tick, every LED the tick wrote still has its effect
WritesOnlyActive ==
    engine_call = "tick" =>
        \A i \in DOMAIN tick_writes :
            \E n \in EffectNames(led_effects) :
                led_name_to_id[n] = tick_writes[i][1]

PrerequisiteToggles ==
    IF model_type = "mech" THEN MechToggles ELSE ShipToggles

\* C24: after a cycle of the runtime loop, in the mech and ship variants,
\* reactor_ready is true only when every control of the prerequisite set is
\* logically on, that is, the logical state the driver holds for it (and
\* reported to on_control_change) is true.
C24_ReadyMeansLogicallyOn ==
    (engine_call = "cycle" /\ model_type \in {"mech", "ship"}
        /\ vstate.reactor_ready)
    => \A i \in DOMAIN PrerequisiteToggles :
          logical_states[MapControl(PrerequisiteToggles[i])]

\* the records of a log as _push stamps them
Stamped(log) == [i \in DOMAIN log |-> Stamp(log[i], now)]

IsReplayable(e) == e.type \in {"button", "macro"}

InSeq(x, seq) == \E i \in DOMAIN seq : seq[i] = x

Range(seq) == {seq[i] : i \in DOMAIN seq}

\* C30 as stated: in every cycle each button or macro record the vessel
\* model or a macro run from physical dispatch enqueues during the cycle is
\* in the list the cycle's drain returns for replay.
C30_EnqueuedReplayed ==
    [][engine_call' = "cycle" =>
          \A e \in {Stamp(x, now) :
                       x \in {y \in Range(cycle_hist'.fed \o cycle_hist'.queued) :
                                 IsReplayable(y)}} :
              InSeq(e, cycle_hist'.drained)]_vars

\* C30, with the queue's capacity: in every cycle (1) the vessel model has
\* seen the edges of the report decoded in this cycle; (2) the list the drain
\* returns is the last maxlen of the records left by the previous cycle's
\* replay, then the vessel model's, then the physical dispatch's, in that
\* order; (3) the drained records are replayed in the cycle: a drained press
\* of Start has typed KEY_S, and the queue holds afterwards only what the
\* replay itself enqueued; (4) the effect tick runs after the replay: an
\* effect that a replayed macro started with a duration of 0 ms is removed by
\* the tick of the same cycle.
C30_CycleOrder ==
    [][engine_call' = "cycle" =>
          /\ \A n \in DOMAIN button_name_to_index :
                (/\ ~prev_control_data'.none
                 /\ (button_name_to_index[n] \in raw_control_data'.down)
                       # (button_name_to_index[n] \in prev_control_data'.down))
                => Tracked(control_state', n)
                      = (button_name_to_index[n] \in raw_control_data'.down)
          /\ cycle_hist'.drained
                = LastN(events \o Stamped(cycle_hist'.fed \o cycle_hist'.queued),
                        maxlen)
          /\ \A i \in DOMAIN cycle_hist'.drained :
                LET e == cycle_hist'.drained[i]
                IN  /\ (e.type = "button" /\ e.name = "Start" /\ e.pressed)
                        => KeyEventAt(engine_out', "KEY_S", "down") # {}
                    /\ (e.type = "macro" /\ e.name = "fx")
                        => /\ InSeq("Comm3", tick_removed')
                           /\ InSeq(Stamp(ButtonRecord("Comm5", TRUE, "macro", "tap"), now),
                                    events')
          /\ \A i \in DOMAIN events' : events'[i].source = "macro"
          /\ \A i \in DOMAIN led_effects' :
                ~Expired(led_effects'[i].effect, monotonic')]_vars

\* C30 witness: with room in the queue, Ignition and Comm2 are pressed in
\* one report while the reactor is ready: the vessel model queues three
\* events and the press and release of Start, Comm2's macro queues fx and a
\* press of Start, all seven are drained and replayed in the cycle (KEY_S is
\* typed twice), and the tick removes fx's effect
C30_Witness ==
    /\ engine_call = "cycle"
    /\ maxlen = 8
    /\ Len(cycle_hist.fed) = 5
    /\ Len(cycle_hist.queued) = 2
    /\ Len(cycle_hist.drained) = 7
    /\ Cardinality(KeyEventAt(engine_out, "KEY_S", "down")) = 2
    /\ tick_removed = <<"Comm3">>
    /\ led_effects = <<>>
    /\ events = <<Stamp(ButtonRecord("Comm5", TRUE, "macro", "tap"), now)>>


\* C31: once a hold action has pressed its key, the key stays in active_keys
\* while the control stays down, whatever else runs in between (a tap macro
\* or another hold action using the same key included).
C31_HeldKeysStay ==
    [][\A i \in DOMAIN EdgeControls :
          LET c == EdgeControls[i]
          IN  /\ c.behavior = "hold" /\ ~c.script
              /\ ~raw_control_data.none
              /\ c.button \in raw_control_data.down
              /\ c.button \in raw_control_data'.down
              /\ c.key \in active_keys
              => c.key \in active_keys']_vars


\* the values the signed decode takes over all pairs of bytes
SignedAxisValues ==
    {SignedAxisValue(<<hi, lo>>, 1, 2) : hi \in ByteArgs, lo \in ByteArgs}

\* the decoded value is the least (the greatest) of all decoded values
IsLeast(v, S) == v \in S /\ \A w \in S : v <= w
IsGreatest(v, S) == v \in S /\ \A w \in S : w <= v

\* C32 as stated: over all pairs of bytes the signed decode spans
\* -1024..1023, the least value attained being -1024 and the greatest 1023.
C32_SpanStated ==
    axis_out # <<>> =>
        /\ IsLeast(axis_out[2], SignedAxisValues) => axis_out[2] = -1024
        /\ IsGreatest(axis_out[2], SignedAxisValues) => axis_out[2] = 1023

\* C32: over all pairs of bytes the signed decode stays in -512..511, the
\* two's-complement range of a 10-bit value; the least value attained is
\* -512 and the greatest 511.
C32_SignedAxisRange ==
    axis_out # <<>> =>
        /\ axis_out[2] \in -512 .. 511
        /\ IsLeast(axis_out[2], SignedAxisValues) <=> axis_out[2] = -512
        /\ IsGreatest(axis_out[2], SignedAxisValues) <=> axis_out[2] = 511

\* C32 witness: the pair with the sign flag and no other bit decodes to the
\* least value
C32_Witness ==
    /\ axis_buf = <<128, 0>> /\ axis_out = <<512, -512>>
    /\ IsLeast(-512, SignedAxisValues) /\ IsGreatest(511, SignedAxisValues)


\* the control's button has a press edge in the cycle just run
PressEdgeNow(button) ==
    /\ ~prev_control_data'.none
    /\ button \in raw_control_data'.down
    /\ button \notin prev_control_data'.down

\* the control's button differs between the last two reports
ChangedNow(button) ==
    (button \in raw_control_data'.down) # (button \in prev_control_data'.down)

\* the keys that have an event in out
KeysOf(out) == {out[k][2] : k \in DOMAIN out}

\* the controls of the config mapped to a list that is not empty
ListControls ==
    {i \in DOMAIN control_macros :
        /\ control_macros[i].mapping.shape = "list"
        /\ control_macros[i].mapping.actions # <<>>}

\* C33: a control mapped to a list of length L > 0 dispatches the element at
\* index layer mod L, whatever layer the engine has reached (negative and
\* >= L included): on the press edge a tap control types that element's key
\* and a hold control holds it, and when no other control changed no other
\* key is touched.  handle_layer_cycle and the cycle_layer step keep the
\* layer in 0..max_layers-1 when it starts there.
C33_LayerLookup ==
    [][/\ engine_call' = "frame" =>
             \A i \in ListControls :
                LET c      == control_macros[i]
                    button == button_name_to_index[c.control]
                    L      == Len(c.mapping.actions)
                    action == c.mapping.actions[(layer' % L) + 1]
                    key    == macros[action].keys[1]
                IN  PressEdgeNow(button) =>
                       /\ IF c.control = "Eject"
                          THEN key \in active_keys'
                          ELSE KeyEventAt(engine_out', key, "up") # {}
                       /\ (\A j \in DOMAIN control_macros : j # i =>
                              ~ChangedNow(button_name_to_index[
                                             control_macros[j].control]))
                          => KeysOf(engine_out') \subseteq {key}
       /\ (/\ layer \in 0 .. MaxLayers - 1
           /\ engine_call' = "frame" \/ RunMacroCall("cyc"))
          => /\ layer' \in 0 .. MaxLayers - 1
             /\ (RunMacroCall("cyc") \/ PressEdgeNow(33))
                   => layer' = (layer + 1) % MaxLayers
             /\ ~RunMacroCall("cyc") /\ ~PressEdgeNow(33) => layer' = layer]_vars

\* C33 witness: with the layer at -1 the press of Comm1 typed the last
\* element of its three-element list
C33_Witness ==
    /\ layer = -1 /\ engine_call = "frame"
    /\ Len(control_macros[1].mapping.actions) = 3
    /\ prev_control_data = [none |-> FALSE, down |-> {}]
    /\ raw_control_data = [none |-> FALSE, down |-> {28}]
    /\ engine_out = <<KeyDown("KEY_C"), KeyUp("KEY_C")>>


\* C34: after any sequence of set_led, set_all_leds and update_gear_leds
\* calls, for every id in 4..41 other than 34 led_state holds the nibble of
\* the LED report the id addresses, a value in 0..15, and the nibbles no id
\* addresses (bytes 0, 1 and 21, the low nibble of byte 17) are zero.
C34_ReportMatchesLedState ==
    /\ \A led_id \in (4 .. 41) \ {34} :
          /\ led_state[led_id] = NibbleOf(raw_led_data, led_id)
          /\ led_state[led_id] \in 0 .. 15
    /\ \A byte_pos \in DOMAIN raw_led_data : raw_led_data[byte_pos] \in 0 .. 255
    /\ raw_led_data[0] = 0 /\ raw_led_data[1] = 0 /\ raw_led_data[21] = 0
    /\ raw_led_data[17] % 16 = 0

\* C34 witness: update_gear_leds(5, 20) after LED 35 was lit over a panel set
\* to 9: the gear LEDs are off but for LED 41 at 15, LED 5 still shows 9
C34_Witness ==
    /\ last_set.op = "update_gear_leds" /\ ~last_set.same
    /\ led_state[35] = 0 /\ raw_led_data[17] = 0
    /\ led_state[41] = 15 /\ raw_led_data[20] = 15 * 16
    /\ led_state[5] = 9 /\ raw_led_data[2] = 9 * 16 + 9


\* the pairs of latched controls that name each other as peer
MutualPairs ==
    {pair \in LatchedControls \X LatchedControls :
        /\ pair[1].button < pair[2].button
        /\ \E i \in DOMAIN pair[1].peers : pair[1].peers[i].led = pair[2].led
        /\ \E i \in DOMAIN pair[2].peers : pair[2].peers[i].led = pair[1].led}

\* C35: for two latched controls that name each other as peer, both LEDs off
\* at first and written by handle_button_leds only, at most one of the two
\* LEDs is lit at the end of every handle_button_leds call, whatever the
\* reports, those with a press edge of both controls included.
C35_OneOfLatchedPair ==
    last_call = "frame" =>
        \A pair \in MutualPairs :
            ~(led_state[pair[1].led] > 0 /\ led_state[pair[2].led] > 0)

\* C35 witness: Comm1 lit, then both Comm1 and Comm2 have a press edge in one
\* report: Comm1 goes off, Comm2 goes on and is switched off by Comm1's edge
C35_Witness ==
    /\ last_call = "frame" /\ MutualPairs # {}
    /\ prev_control_data = [none |-> FALSE, down |-> {}]
    /\ raw_control_data = [none |-> FALSE, down |-> {28, 29}]
    /\ led_writes = <<<<29, 0, 28>>, <<30, 15, 29>>, <<30, 0, 29>>>>
    /\ led_state[29] = 0 /\ led_state[30] = 0


\* an and/or whose operands are all toggle_on of a name the panel does not have
UnknownNameOnly(body) ==
    /\ body.kind = "BoolOp"
    /\ \A k \in DOMAIN body.kids :
          body.kids[k] = Call("toggle_on", <<Constant(PyStr("Nope"))>>)

\* C36: the button-state lookup is false for every index outside 0..38, the
\* index -1 that pressed(name) and toggle_on(name) pass for a name that does
\* not exist included, whatever the bytes of the report: an expression that
\* only asks for such a name evaluates to false.
C36_UnknownNameIsFalse ==
    /\ \A button_index \in 39 .. 47 : ~GetButtonState(ControlData, button_index)
    /\ (eval_done /\ eval_input.syntax_ok /\ UnknownNameOnly(eval_input.body))
          => /\ ~eval_out.raised
             /\ ~Truthy(eval_out.val)


\* type and name of the records of a queue
RecordKeys(q) == [k \in DOMAIN q |-> <<q[k].type, q[k].name>>]

\* what the replay of one record enqueues in these configs: the macro Q1
\* queues a press of Comm3 and the macro A, the macro R queues itself twice,
\* and no control is mapped to either
Requeues(queued) ==
    IF queued.type = "macro" /\ queued.name = "Q1"
    THEN <<<<"button", "Comm3">>, <<"macro", "A">>>>
    ELSE IF queued.type = "macro" /\ queued.name = "R"
    THEN <<<<"macro", "R">>, <<"macro", "R">>>>
    ELSE <<>>

RECURSIVE RequeuedBy(_)
RequeuedBy(drained) ==
    IF drained = <<>> THEN <<>>
    ELSE Requeues(Head(drained)) \o RequeuedBy(Tail(drained))

LastOf(n, s) == IF Len(s) <= n THEN s ELSE SubSeq(s, Len(s) - n + 1, Len(s))

\* the drained records that are the macro named
MacroRecords(q, name) ==
    {k \in DOMAIN q : q[k].type = "macro" /\ q[k].name = name}

\* the replay has run each drained record once
ReplayedOnce ==
    /\ Cardinality(KeyEventAt(engine_out', "KEY_R", "down"))
          = Cardinality(MacroRecords(events, "R"))
    /\ Cardinality(KeyEventAt(engine_out', "KEY_A", "down"))
          >= Cardinality(MacroRecords(events, "A"))

\* C37 as stated: a record enqueued during the replay of a drained batch is
\* not replayed in that cycle: it stays in the queue for the next cycle's
\* drain, and the replay handles the records present at the drain only, so
\* it finishes even for a macro that queues itself.
C37_RequeuedAllWait ==
    [][DrainReplay =>
          /\ RecordKeys(events') = RequeuedBy(events)
          /\ ReplayedOnce]_vars

\* C37: a record enqueued during the replay of a drained batch is not
\* replayed in that cycle: after the replay the queue holds the last
\* max_events of the records the replayed macros enqueued, and the replay has
\* run each drained record once, so it finishes even for a macro that queues
\* itself; the next cycle's drain replays what was left.
C37_RequeuedWaits ==
    [][DrainReplay =>
             /\ RecordKeys(events') = LastOf(maxlen, RequeuedBy(events))
             /\ ReplayedOnce]_vars

\* C37 witness: the queue held the macro R twice; the replay typed KEY_R
\* twice and left the last two of the four records R enqueued
C37_Witness ==
    /\ engine_call = "replay"
    /\ engine_out = <<KeyDown("KEY_R"), KeyUp("KEY_R"),
                      KeyDown("KEY_R"), KeyUp("KEY_R")>>
    /\ RecordKeys(events) = <<<<"macro", "R">>, <<"macro", "R">>>>


\* C38: the logical state of a control in toggle mode changes only in a
\* cycle in which the control has a press edge; between two press edges it
\* is the same from cycle to cycle, also while an LED effect or a led_set
\* step writes the control's LED.
C38_ToggleOnlyOnEdge ==
    [][engine_call' = "cycle" =>
          \A button \in DOMAIN button_to_led_name :
              (IsToggleButton(button) /\ ~PressEdgeNow(button))
                 => logical_states'[ButtonNameAt(button)]
                       = logical_states[ButtonNameAt(button)]]_vars


\* C39: every key a hold dispatch pressed on the press edge of a control is
\* released by the dispatch on its next release edge, also when the layer
\* changed in between: after a cycle whose report shows every control
\* released no key is left in active_keys.
C39_NoKeyLeftHeld ==
    (engine_call = "frame" /\ ~raw_control_data.none
        /\ raw_control_data.down = {})
       => active_keys = {}


\* C40: in the mech and ship models the online flag is true only while
\* power_state is main_reactor and startup_state is online, whatever
\* on_boot_complete and on_control_change calls have been made.
C40_OnlineMeansMainReactor ==
    (model_type \in {"mech", "ship"} /\ vstate.online)
       => /\ vstate.power_state = "main_reactor"
          /\ vstate.startup_state = "online"

=============================================================================
